---- MODULE Spec2Model ----
(***************************************************************************)
(* Token governance scripts of the design-system repository:               *)
(*   scripts/validate-tokens.js     (stylesheet validator, Phase 10)       *)
(*   scripts/figma-sync-dry-run.js  (external batch dry run, Phase 11)     *)
(*   scripts/figma-sync-apply.js    (approval, merge and write, Phase 12)  *)
(*                                                                         *)
(* Text is modelled as a sequence of atoms: a word ("primitive", "a"), a   *)
(* separator ("-", ".") or a bracket ("{", "}", "var(", ")").  Prefix      *)
(* tests, replacement and concatenation act on these sequences the way     *)
(* the JavaScript string operations act on characters.                     *)
(***************************************************************************)
EXTENDS Integers, Sequences, FiniteSets, TLC

VARIABLES
    \* ---- one run of figma-sync-dry-run.js / figma-sync-apply.js ----
    entry,            \* "dry" | "apply": the script that runs
    yes,              \* opts.yes (--yes / -y)
    cssFile,          \* the compiled stylesheet main() resolved
    figmaJSON,        \* the export file as main() read it
    pc,               \* position of main()
    disk,             \* the registry and the two generated files
    disk0,            \* the disk as it was when the run started
    cssTokens,        \* parseCSSTokens(...) of the compiled stylesheet
    figmaTokens,      \* parseFigmaExport(...)
    archErrors,       \* validateFigmaTiers(...) plus cycle errors
    diff,             \* diffTokens(...)
    currentRegistry,  \* loadUserThemeRegistry(...)
    removableFromTheme,
    rc,               \* the frame of reviewCategory suspended at its prompt
    approvedAdded, approvedUpdated, approvedRemoved,
    skippedCount,
    quit,
    exitCode,         \* NoExit while the process runs
    trace,            \* what the run did, in order (diff, prompts, answers, writes)
    out,              \* the contents writeOutputFiles generated, not yet all written
    \* ---- one run of validate-tokens.js ----
    val,
    \* ---- normalisation of an external batch on its own ----
    norm,
    \* ---- one call of a function of the scripts on drawn arguments ----
    fn

runVars == <<entry, yes, cssFile, figmaJSON, pc, disk, disk0, cssTokens, figmaTokens, archErrors, diff,
             currentRegistry, removableFromTheme, rc, approvedAdded,
             approvedUpdated, approvedRemoved, skippedCount, quit, exitCode, trace, out>>

vars == <<runVars, val, norm, fn>>

-----------------------------------------------------------------------------
(* Bounds of the model *)

MaxBatch == 3       \* entries in the external batch of a run
MaxItems == 3       \* definitions + references + rule usages of a stylesheet
MaxTokens == 2      \* entries of a batch normalised on its own

-----------------------------------------------------------------------------
(* Text *)

Null == <<"<null>">>            \* JavaScript null / undefined where a text is expected
NotAString == <<"<non-string>">> \* a JSON value whose typeof is not 'string'

startsWith(s, p) == Len(s) >= Len(p) /\ SubSeq(s, 1, Len(p)) = p

\* (mutant) only the first "." is replaced
ReplaceDotsFirstOnly(s) ==
    [i \in 1..Len(s) |->
        IF s[i] = "." /\ \A j \in 1..(i - 1) : s[j] # "." THEN "-" ELSE s[i]]

\* String.prototype.replace(/\./g, '-')
ReplaceDots(s) == [i \in 1..Len(s) |-> IF s[i] = "." THEN "-" ELSE s[i]]

\* the match of /^\{(.+)\}$/ : group 1, or Null
BraceGroup(v) ==
    IF /\ Len(v) >= 3
       /\ v[1] = "{"
       /\ v[Len(v)] = "}"
       /\ \A i \in 2..(Len(v) - 1) : v[i] # "\n"
    THEN SubSeq(v, 2, Len(v) - 1)
    ELSE Null

\* String.prototype.split('.')[0]
RECURSIVE FirstSegment(_)
FirstSegment(s) ==
    IF s = <<>> \/ Head(s) = "." THEN <<>> ELSE <<Head(s)>> \o FirstSegment(Tail(s))

\* the atoms String.prototype.trim and the regular expressions' \s strip
WhiteSpace == {" ", "\t"}

\* String.prototype.trim
RECURSIVE TrimLeft(_)
TrimLeft(s) == IF s # <<>> /\ Head(s) \in WhiteSpace THEN TrimLeft(Tail(s)) ELSE s
RECURSIVE TrimRight(_)
TrimRight(s) ==
    IF s # <<>> /\ s[Len(s)] \in WhiteSpace
    THEN TrimRight(SubSeq(s, 1, Len(s) - 1)) ELSE s
Trim(s) == TrimRight(TrimLeft(s))

-----------------------------------------------------------------------------
(* JavaScript Map: entries [k, v] in insertion order *)

MapHas(m, k) == \E i \in 1..Len(m) : m[i].k = k
MapIdx(m, k) == CHOOSE i \in 1..Len(m) : m[i].k = k
MapGet(m, k) == m[MapIdx(m, k)].v
MapSet(m, k, v) ==
    IF MapHas(m, k) THEN [m EXCEPT ![MapIdx(m, k)].v = v]
    ELSE Append(m, [k |-> k, v |-> v])
MapKeys(m) == [i \in 1..Len(m) |-> m[i].k]

RECURSIVE MapFromPairs(_, _)
MapFromPairs(m, pairs) ==
    IF pairs = <<>> THEN m
    ELSE MapFromPairs(MapSet(m, Head(pairs).k, Head(pairs).v), Tail(pairs))

SeqToSet(s) == {s[i] : i \in 1..Len(s)}

-----------------------------------------------------------------------------
(* Name conversion and tier detection (figma-sync-dry-run.js, mirrored in  *)
(* figma-sync-apply.js)                                                    *)

\* (mutant) component tokens may also reference primitives
FIGMA_ALLOWED_DEPS_ComponentToPrimitive(tier) ==
    CASE tier = "primitive" -> {}
      [] tier = "semantic"  -> {"primitive"}
      [] tier = "component" -> {"semantic", "primitive"}

\* (mutant) semantic tokens may also reference semantic tokens
FIGMA_ALLOWED_DEPS_SemanticToSemantic(tier) ==
    CASE tier = "primitive" -> {}
      [] tier = "semantic"  -> {"primitive", "semantic"}
      [] tier = "component" -> {"semantic"}

FIGMA_ALLOWED_DEPS(tier) ==
    CASE tier = "primitive" -> {}
      [] tier = "semantic"  -> {"primitive"}
      [] tier = "component" -> {"semantic"}

VALID_FIGMA_TIERS == {"primitive", "semantic", "component"}

figmaNameToCSSVar(dotName) == <<"-", "-">> \o ReplaceDots(dotName)

figmaValueToCSS(figmaValue) ==
    LET m == BraceGroup(figmaValue)
    IN IF m # Null THEN <<"var(">> \o figmaNameToCSSVar(m) \o <<")">> ELSE figmaValue

extractFigmaRef(figmaValue) ==
    LET m == BraceGroup(figmaValue)
    IN IF m # Null THEN figmaNameToCSSVar(m) ELSE Null

getTierFromCSSName(cssName) ==
    IF startsWith(cssName, <<"-", "-", "primitive", "-">>) THEN "primitive"
    ELSE IF startsWith(cssName, <<"-", "-", "semantic", "-">>) THEN "semantic"
    ELSE IF startsWith(cssName, <<"-", "-", "component", "-">>) THEN "component"
    ELSE IF startsWith(cssName, <<"-", "-", "base", "-">>) THEN "base"
    ELSE "none"

getTierFromFigmaName(figmaName) ==
    LET prefix == FirstSegment(figmaName)
    IN IF Len(prefix) = 1 /\ prefix[1] \in VALID_FIGMA_TIERS THEN prefix[1] ELSE "none"

-----------------------------------------------------------------------------
(* parseFigmaExport.  The file is modelled after JSON.parse:               *)
(*   [kind |-> "unparsable"]            JSON.parse throws                  *)
(*   [kind |-> "nolist"]                no array field "tokens"            *)
(*   [kind |-> "list", tokens |-> ...]  entries [name, value], each a text *)
(*                                      or NotAString                      *)
(* The result is [ok |-> FALSE] (the function throws) or the token list.   *)

ParsedEntry(e) ==
    [cssName    |-> figmaNameToCSSVar(e.name),
     cssValue   |-> figmaValueToCSS(e.value),
     figmaName  |-> e.name,
     figmaValue |-> e.value,
     tier       |-> getTierFromFigmaName(e.name)]

EntryOk(e) ==
    /\ e.name # NotAString /\ Trim(e.name) # <<>>
    /\ e.value # NotAString

\* (mutant) the entries before the first malformed one are returned
parseFigmaExportPartial(json) ==
    IF json.kind # "list" THEN [ok |-> FALSE, tokens |-> <<>>]
    ELSE LET bad == {i \in 1..Len(json.tokens) : ~EntryOk(json.tokens[i])}
             n   == IF bad = {} THEN Len(json.tokens)
                    ELSE (CHOOSE i \in bad : \A j \in bad : i <= j) - 1
         IN [ok |-> TRUE,
             tokens |-> [i \in 1..n |-> ParsedEntry(json.tokens[i])]]

parseFigmaExport(json) ==
    IF json.kind # "list" THEN [ok |-> FALSE, tokens |-> <<>>]
    ELSE IF \E i \in 1..Len(json.tokens) : ~EntryOk(json.tokens[i])
         THEN [ok |-> FALSE, tokens |-> <<>>]
         ELSE [ok |-> TRUE,
               tokens |-> [i \in 1..Len(json.tokens) |-> ParsedEntry(json.tokens[i])]]

-----------------------------------------------------------------------------
(* validateFigmaTiers: at most one error per token, all tokens visited *)

Err(kind, token, detail) == [kind |-> kind, token |-> token, detail |-> detail]

TokenTierErrors(token) ==
    IF token.tier = "none"
    THEN <<Err("unknown-tier", token.figmaName, <<>>)>>
    ELSE LET refCSSName == extractFigmaRef(token.figmaValue)
             refTier    == getTierFromCSSName(refCSSName)
         IN IF refCSSName = Null THEN <<>>
            ELSE IF refTier = "none"
                 THEN <<Err("unknown-ref-tier", token.figmaName, refCSSName)>>
            ELSE IF refTier \notin VALID_FIGMA_TIERS
                 THEN <<Err("invalid-ref-tier", token.figmaName, refCSSName)>>
            ELSE IF refTier \notin FIGMA_ALLOWED_DEPS(token.tier)
                 THEN <<Err("tier-violation", token.figmaName, refCSSName)>>
            ELSE <<>>

RECURSIVE validateFigmaTiers(_)
validateFigmaTiers(figmaTokens_) ==
    IF figmaTokens_ = <<>> THEN <<>>
    ELSE TokenTierErrors(Head(figmaTokens_)) \o validateFigmaTiers(Tail(figmaTokens_))

\* the copy in figma-sync-apply.js
ApplyTokenTierErrors(token) ==
    IF token.tier = "none"
    THEN <<Err("unknown-tier", token.figmaName, <<>>)>>
    ELSE LET ref     == extractFigmaRef(token.figmaValue)
             refTier == getTierFromCSSName(ref)
         IN IF ref = Null THEN <<>>
            ELSE IF refTier = "none"
                 THEN <<Err("unknown-ref-tier", token.figmaName, ref)>>
            ELSE IF refTier \notin VALID_FIGMA_TIERS
                 THEN <<Err("invalid-ref-tier", token.figmaName, ref)>>
            ELSE IF refTier \notin FIGMA_ALLOWED_DEPS(token.tier)
                 THEN <<Err("tier-violation", token.figmaName, ref)>>
            ELSE <<>>

RECURSIVE applyValidateFigmaTiers(_)
applyValidateFigmaTiers(figmaTokens_) ==
    IF figmaTokens_ = <<>> THEN <<>>
    ELSE ApplyTokenTierErrors(Head(figmaTokens_))
            \o applyValidateFigmaTiers(Tail(figmaTokens_))

-----------------------------------------------------------------------------
(* buildFigmaGraph / buildGraph: cssName -> [ref] or [] *)

RECURSIVE buildFigmaGraph(_)
buildFigmaGraph(figmaTokens_) ==
    IF figmaTokens_ = <<>> THEN <<>>
    ELSE LET n   == Len(figmaTokens_)
             t   == figmaTokens_[n]
             ref == extractFigmaRef(t.figmaValue)
             g   == buildFigmaGraph(SubSeq(figmaTokens_, 1, n - 1))
         IN MapSet(g, t.cssName, IF ref # Null THEN <<ref>> ELSE <<>>)

-----------------------------------------------------------------------------
(* findCycles of the two figma scripts: iterative DFS, each frame carries  *)
(* its own path; a referenced name that is no node is added as WHITE.      *)

WHITE == 0
GRAY  == 1
BLACK == 2

GraphGet(graph, node) == IF MapHas(graph, node) THEN MapGet(graph, node) ELSE <<>>

IndexOf(path, x) == CHOOSE i \in 1..Len(path) : path[i] = x /\ \A j \in 1..(i - 1) : path[j] # x

\* (mutant) a node whose references are exhausted is popped but stays gray
FigmaDfsStepLeavesGray(graph, st) ==
    LET top   == Len(st.stack)
        frame == st.stack[top]
        deps  == GraphGet(graph, frame.node)
    IN IF frame.edgeIdx >= Len(deps)
       THEN [st EXCEPT !.stack = SubSeq(@, 1, top - 1)]
       ELSE LET dep    == deps[frame.edgeIdx + 1]
                stack1 == [st.stack EXCEPT ![top].edgeIdx = @ + 1]
                color1 == IF MapHas(st.color, dep) THEN st.color
                          ELSE MapSet(st.color, dep, WHITE)
                depColor == MapGet(color1, dep)
            IN IF depColor = GRAY
               THEN [st EXCEPT !.color = color1, !.stack = stack1,
                        !.cycles = Append(@,
                            SubSeq(frame.path, IndexOf(frame.path, dep), Len(frame.path))
                                \o <<dep>>)]
               ELSE IF depColor = WHITE
               THEN [st EXCEPT !.color = MapSet(color1, dep, GRAY),
                        !.stack = Append(stack1,
                            [node |-> dep, path |-> Append(frame.path, dep), edgeIdx |-> 0])]
               ELSE [st EXCEPT !.color = color1, !.stack = stack1]

\* one turn of the while loop of dfs; st = [color, stack, cycles]
FigmaDfsStep(graph, st) ==
    LET top   == Len(st.stack)
        frame == st.stack[top]
        deps  == GraphGet(graph, frame.node)
    IN IF frame.edgeIdx >= Len(deps)
       THEN [st EXCEPT !.color = MapSet(@, frame.node, BLACK),
                       !.stack = SubSeq(@, 1, top - 1)]
       ELSE LET dep    == deps[frame.edgeIdx + 1]
                stack1 == [st.stack EXCEPT ![top].edgeIdx = @ + 1]
                color1 == IF MapHas(st.color, dep) THEN st.color
                          ELSE MapSet(st.color, dep, WHITE)
                depColor == MapGet(color1, dep)
            IN IF depColor = GRAY
               THEN [st EXCEPT !.color = color1, !.stack = stack1,
                        !.cycles = Append(@,
                            SubSeq(frame.path, IndexOf(frame.path, dep), Len(frame.path))
                                \o <<dep>>)]
               ELSE IF depColor = WHITE
               THEN [st EXCEPT !.color = MapSet(color1, dep, GRAY),
                        !.stack = Append(stack1,
                            [node |-> dep, path |-> Append(frame.path, dep), edgeIdx |-> 0])]
               ELSE [st EXCEPT !.color = color1, !.stack = stack1]

RECURSIVE FigmaDfsLoop(_, _)
FigmaDfsLoop(graph, st) ==
    IF st.stack = <<>> THEN st ELSE FigmaDfsLoop(graph, FigmaDfsStep(graph, st))

\* (mutant) the first reference of the start node is passed over
FigmaDfsEnterSkipsFirstEdge(st, start) ==
    [st EXCEPT !.color = MapSet(@, start, GRAY),
               !.stack = <<[node |-> start, path |-> <<start>>, edgeIdx |-> 1]>>]

\* the two statements of dfs before its while loop
FigmaDfsEnter(st, start) ==
    [st EXCEPT !.color = MapSet(@, start, GRAY),
               !.stack = <<[node |-> start, path |-> <<start>>, edgeIdx |-> 0]>>]

FigmaDfs(graph, st, start) == FigmaDfsLoop(graph, FigmaDfsEnter(st, start))

\* for (const [node, clr] of color) if (clr === WHITE) dfs(node)
\* (the iteration is live: it also visits the keys dfs adds)
RECURSIVE FigmaOuter(_, _, _)
FigmaOuter(graph, st, i) ==
    IF i > Len(st.color) THEN st
    ELSE FigmaOuter(graph,
            IF st.color[i].v = WHITE THEN FigmaDfs(graph, st, st.color[i].k) ELSE st,
            i + 1)

figmaFindCycles(graph) ==
    FigmaOuter(graph,
        [color  |-> [i \in 1..Len(graph) |-> [k |-> graph[i].k, v |-> WHITE]],
         stack  |-> <<>>,
         cycles |-> <<>>], 1).cycles

\* the copy in figma-sync-apply.js (same frames, same order of tests)
applyFindCycles(graph) ==
    FigmaOuter(graph,
        [color  |-> [i \in 1..Len(graph) |-> [k |-> graph[i].k, v |-> WHITE]],
         stack  |-> <<>>,
         cycles |-> <<>>], 1).cycles

-----------------------------------------------------------------------------
(* diffTokens *)

\* (mutant) the local set is not restricted to the tiers Figma manages
CssRelevantUnfiltered(cssTokens_) == cssTokens_

CssRelevant(cssTokens_) ==
    SelectSeq(cssTokens_, LAMBDA e : getTierFromCSSName(e.k) \in VALID_FIGMA_TIERS)

FigmaMap(figmaTokens_) ==
    MapFromPairs(<<>>, [i \in 1..Len(figmaTokens_) |->
        [k |-> figmaTokens_[i].cssName, v |-> figmaTokens_[i].cssValue]])

RECURSIVE ClassifyFigma(_, _)
\* the loop over figmaMap; acc = [added, modified, unchanged]
ClassifyFigma(figmaMap, cssRelevant) ==
    IF figmaMap = <<>> THEN [added |-> <<>>, modified |-> <<>>, unchanged |-> <<>>]
    ELSE LET n    == Len(figmaMap)
             e    == figmaMap[n]
             acc  == ClassifyFigma(SubSeq(figmaMap, 1, n - 1), cssRelevant)
         IN IF ~MapHas(cssRelevant, e.k)
            THEN [acc EXCEPT !.added = Append(@, [name |-> e.k, figmaValue |-> e.v])]
            ELSE LET cssValue == MapGet(cssRelevant, e.k)
                 IN IF cssValue # e.v
                    THEN [acc EXCEPT !.modified = Append(@,
                            [name |-> e.k, cssValue |-> cssValue, figmaValue |-> e.v])]
                    ELSE [acc EXCEPT !.unchanged = Append(@, [name |-> e.k])]

\* (mutant) every local token of the three tiers is listed as removed
RemovedOfEveryRelevant(figmaMap, cssRelevant) ==
    [i \in 1..Len(cssRelevant) |-> [name |-> cssRelevant[i].k, cssValue |-> cssRelevant[i].v]]

RemovedOf(figmaMap, cssRelevant) ==
    LET only == SelectSeq(cssRelevant, LAMBDA e : ~MapHas(figmaMap, e.k))
    IN [i \in 1..Len(only) |-> [name |-> only[i].k, cssValue |-> only[i].v]]

diffTokens(cssTokens_, figmaTokens_) ==
    LET figmaMap    == FigmaMap(figmaTokens_)
        cssRelevant == CssRelevant(cssTokens_)
        acc         == ClassifyFigma(figmaMap, cssRelevant)
    IN [added     |-> acc.added,
        modified  |-> acc.modified,
        removed   |-> RemovedOf(figmaMap, cssRelevant),
        unchanged |-> acc.unchanged]

\* the copy in figma-sync-apply.js
applyDiffTokens(cssTokens_, figmaTokens_) ==
    LET figmaMap    == FigmaMap(figmaTokens_)
        cssRelevant == CssRelevant(cssTokens_)
        acc         == ClassifyFigma(figmaMap, cssRelevant)
    IN [added     |-> acc.added,
        modified  |-> acc.modified,
        removed   |-> RemovedOf(figmaMap, cssRelevant),
        unchanged |-> acc.unchanged]

-----------------------------------------------------------------------------
(* User theme registry (figma-sync-apply.js).  tokens is the override map  *)
(* (a function on the overridden names), removed a list without            *)
(* repetition, changelog a list of [action, token, value, prev].           *)

EmptyMap == [n \in {} |-> <<>>]
EmptyRegistry == [tokens |-> EmptyMap, removed |-> <<>>, changelog |-> <<>>]

NoFile == [state |-> "absent"]

\* a file of the disk: NoFile, [state |-> "corrupt"], or [state |-> "ok", ...]
loadUserThemeRegistry(file) ==
    IF file.state = "absent" THEN EmptyRegistry
    ELSE IF file.state = "corrupt" THEN EmptyRegistry
    ELSE [tokens |-> file.tokens, removed |-> file.removed, changelog |-> file.changelog]

\* tokens[name] || dflt : an absent key and the empty string are both falsy
OrElse(tokens, name, dflt) ==
    IF name \in DOMAIN tokens /\ tokens[name] # <<>> THEN tokens[name] ELSE dflt

Upsert(tokens, name, value) ==
    [n \in (DOMAIN tokens) \cup {name} |-> IF n = name THEN value ELSE tokens[n]]

Delete(tokens, name) == [n \in (DOMAIN tokens) \ {name} |-> tokens[n]]

\* Set.prototype.add / delete on the insertion-ordered removedSet
SetAdd(s, x) == IF x \in SeqToSet(s) THEN s ELSE Append(s, x)
SetDelete(s, x) == SelectSeq(s, LAMBDA y : y # x)

LogEntry(action, token, value, prev) ==
    [action |-> action, token |-> token, value |-> value, prev |-> prev]

\* (mutant) an approved addition empties the removed set
RECURSIVE MergeAddedClearsRemoved(_, _)
MergeAddedClearsRemoved(m, items) ==
    IF items = <<>> THEN m
    ELSE LET item == Head(items)
             prev == OrElse(m.tokens, item.name, Null)
         IN MergeAddedClearsRemoved(
              [tokens    |-> Upsert(m.tokens, item.name, item.figmaValue),
               removed   |-> <<>>,
               changelog |-> Append(m.changelog,
                                LogEntry("add", item.name, item.figmaValue, prev))],
              Tail(items))

RECURSIVE MergeAdded(_, _)
MergeAdded(m, items) ==
    IF items = <<>> THEN m
    ELSE LET item == Head(items)
             prev == OrElse(m.tokens, item.name, Null)
         IN MergeAdded(
              [tokens    |-> Upsert(m.tokens, item.name, item.figmaValue),
               removed   |-> SetDelete(m.removed, item.name),
               changelog |-> Append(m.changelog,
                                LogEntry("add", item.name, item.figmaValue, prev))],
              Tail(items))

RECURSIVE MergeUpdated(_, _)
MergeUpdated(m, items) ==
    IF items = <<>> THEN m
    ELSE LET item == Head(items)
             prev == OrElse(m.tokens, item.name, item.cssValue)
         IN MergeUpdated(
              [tokens    |-> Upsert(m.tokens, item.name, item.figmaValue),
               removed   |-> m.removed,
               changelog |-> Append(m.changelog,
                                LogEntry("update", item.name, item.figmaValue, prev))],
              Tail(items))

\* (mutant) the removed names are kept in an array that is pushed to
RECURSIVE MergeRemovedPushes(_, _)
MergeRemovedPushes(m, items) ==
    IF items = <<>> THEN m
    ELSE LET item == Head(items)
             prev == OrElse(m.tokens, item.name, Null)
         IN MergeRemovedPushes(
              [tokens    |-> Delete(m.tokens, item.name),
               removed   |-> Append(m.removed, item.name),
               changelog |-> Append(m.changelog,
                                LogEntry("remove", item.name, Null, prev))],
              Tail(items))

RECURSIVE MergeRemoved(_, _)
MergeRemoved(m, items) ==
    IF items = <<>> THEN m
    ELSE LET item == Head(items)
             prev == OrElse(m.tokens, item.name, Null)
         IN MergeRemoved(
              [tokens    |-> Delete(m.tokens, item.name),
               removed   |-> SetAdd(m.removed, item.name),
               changelog |-> Append(m.changelog,
                                LogEntry("remove", item.name, Null, prev))],
              Tail(items))

\* const changelog = []
MergeStartLog(current) == <<>>

mergeRegistryChanges(current, changes) ==
    MergeRemoved(
        MergeUpdated(
            MergeAdded([tokens    |-> current.tokens,
                        removed   |-> current.removed,
                        changelog |-> MergeStartLog(current)],
                       changes.added),
            changes.updated),
        changes.removedFromTheme)

\* the three files, each computed from the merged registry, written in turn
writeOutputFiles(merged) ==
    [css      |-> [state |-> "ok", tokens |-> merged.tokens],
     scss     |-> [state |-> "ok", tokens |-> merged.tokens],
     registry |-> [state |-> "ok", tokens |-> merged.tokens,
                   removed |-> merged.removed, changelog |-> merged.changelog]]

-----------------------------------------------------------------------------
(* prompt and reviewCategory *)

\* String.prototype.toLowerCase on the atoms the operator can type
toLowerCase(s) ==
    [i \in 1..Len(s) |->
        CASE s[i] = "A" -> "a" [] s[i] = "S" -> "s" [] s[i] = "Q" -> "q"
          [] s[i] = "N" -> "n" [] s[i] = "O" -> "o" [] s[i] = "Y" -> "y"
          [] OTHER -> s[i]]

\* (mutant) the answer is compared as typed, in its own case
promptCaseSensitive(answer) ==
    LET a == Trim(answer)
    IN IF a = <<"a">> THEN "all"
       ELSE IF a = <<"s">> THEN "skip"
       ELSE IF a = <<"q">> THEN "quit"
       ELSE IF a = <<"n">> \/ a = <<"n", "o">> THEN "no"
       ELSE "yes"

prompt(answer) ==
    LET a == toLowerCase(Trim(answer))
    IN IF a = <<"a">> THEN "all"
       ELSE IF a = <<"s">> THEN "skip"
       ELSE IF a = <<"q">> THEN "quit"
       ELSE IF a = <<"n">> \/ a = <<"n", "o">> THEN "no"
       ELSE "yes"

\* the frame of reviewCategory; at = "prompt" (awaiting the answer for
\* items[i]) or "return"
ReviewFrame(kind, items) ==
    [kind |-> kind, items |-> items, i |-> 0, approved |-> <<>>, skipped |-> <<>>,
     applyAll |-> FALSE, skipAll |-> FALSE, quit |-> FALSE, at |-> "return"]

NoFrame == ReviewFrame("none", <<>>)

RECURSIVE ReviewLoop(_)
\* the for loop from its test at index f.i up to the next prompt or the return
ReviewLoop(f) ==
    IF f.i >= Len(f.items) THEN [f EXCEPT !.at = "return"]
    ELSE LET item == f.items[f.i + 1]
         IN IF f.applyAll
            THEN ReviewLoop([f EXCEPT !.approved = Append(@, item), !.i = @ + 1])
            ELSE IF f.skipAll
            THEN ReviewLoop([f EXCEPT !.skipped = Append(@, item), !.i = @ + 1])
            ELSE [f EXCEPT !.at = "prompt"]

\* (mutant) abort approves the entry it was answered at
ReviewAnswerAbortApproves(f, answer) ==
    LET item == f.items[f.i + 1]
    IN IF answer = "quit"
       THEN [f EXCEPT !.approved = Append(@, item),
                      !.skipped = @ \o SubSeq(f.items, f.i + 2, Len(f.items)),
                      !.quit = TRUE, !.at = "return"]
       ELSE IF answer = "all"
       THEN ReviewLoop([f EXCEPT !.applyAll = TRUE, !.approved = Append(@, item),
                                 !.i = @ + 1])
       ELSE IF answer = "skip"
       THEN ReviewLoop([f EXCEPT !.skipAll = TRUE, !.skipped = Append(@, item),
                                 !.i = @ + 1])
       ELSE IF answer = "yes"
       THEN ReviewLoop([f EXCEPT !.approved = Append(@, item), !.i = @ + 1])
       ELSE ReviewLoop([f EXCEPT !.skipped = Append(@, item), !.i = @ + 1])

\* (mutant) accept-all approves the entry it was answered at and no other
ReviewAnswerAllOnlyThis(f, answer) ==
    LET item == f.items[f.i + 1]
    IN IF answer = "quit"
       THEN [f EXCEPT !.skipped = @ \o SubSeq(f.items, f.i + 1, Len(f.items)),
                      !.quit = TRUE, !.at = "return"]
       ELSE IF answer = "all"
       THEN ReviewLoop([f EXCEPT !.approved = Append(@, item), !.i = @ + 1])
       ELSE IF answer = "skip"
       THEN ReviewLoop([f EXCEPT !.skipAll = TRUE, !.skipped = Append(@, item),
                                 !.i = @ + 1])
       ELSE IF answer = "yes"
       THEN ReviewLoop([f EXCEPT !.approved = Append(@, item), !.i = @ + 1])
       ELSE ReviewLoop([f EXCEPT !.skipped = Append(@, item), !.i = @ + 1])

\* what reviewCategory does with the answer to the prompt for items[f.i]
ReviewAnswer(f, answer) ==
    LET item == f.items[f.i + 1]
    IN IF answer = "quit"
       THEN [f EXCEPT !.skipped = @ \o SubSeq(f.items, f.i + 1, Len(f.items)),
                      !.quit = TRUE, !.at = "return"]
       ELSE IF answer = "all"
       THEN ReviewLoop([f EXCEPT !.applyAll = TRUE, !.approved = Append(@, item),
                                 !.i = @ + 1])
       ELSE IF answer = "skip"
       THEN ReviewLoop([f EXCEPT !.skipAll = TRUE, !.skipped = Append(@, item),
                                 !.i = @ + 1])
       ELSE IF answer = "yes"
       THEN ReviewLoop([f EXCEPT !.approved = Append(@, item), !.i = @ + 1])
       ELSE ReviewLoop([f EXCEPT !.skipped = Append(@, item), !.i = @ + 1])

reviewCategory(kind, items) == ReviewLoop(ReviewFrame(kind, items))

-----------------------------------------------------------------------------
(* Inputs of a run *)

Dot(tier, n) == <<tier, ".", n>>
RefTo(name)  == <<"{">> \o name \o <<"}">>
CssName(tier, n) == <<"-", "-", tier, "-", n>>
VarOf(cssName) == <<"var(">> \o cssName \o <<")">>

Entry(name, value) == [name |-> name, value |-> value]

\* the entries an exported batch is drawn from, in file order
BatchUniverse ==
    << Entry(Dot("primitive", "a"), <<"#1">>),
       Entry(Dot("semantic", "a"),  RefTo(Dot("primitive", "a"))),
       Entry(Dot("component", "a"), RefTo(Dot("semantic", "a"))),
       Entry(Dot("semantic", "a"),  <<>>),
       Entry(Dot("base", "a"),      <<"#3">>),
       Entry(Dot("component", "b"), RefTo(Dot("base", "a"))),
       Entry(Dot("semantic", "c"),  RefTo(Dot("semantic", "c"))),
       Entry(Dot("primitive", "b"), RefTo(Dot("x", "y"))) >>

RECURSIVE SortedSeq(_)
SortedSeq(S) ==
    IF S = {} THEN <<>>
    ELSE LET m == CHOOSE x \in S : \A y \in S : x <= y
         IN <<m>> \o SortedSeq(S \ {m})

Pick(universe, S) == LET idx == SortedSeq(S) IN [i \in 1..Len(idx) |-> universe[idx[i]]]

Batches(maxBatch) ==
    {Pick(BatchUniverse, S) :
        S \in {T \in SUBSET (1..Len(BatchUniverse)) : Cardinality(T) <= maxBatch}}

FigmaFiles(maxBatch) ==
    {[kind |-> "list", tokens |-> b] : b \in Batches(maxBatch)}
    \cup {[kind |-> "unparsable", tokens |-> <<>>],
          [kind |-> "nolist", tokens |-> <<>>],
          [kind |-> "list", tokens |-> <<Entry(Dot("primitive", "a"), <<"#1">>),
                                         Entry(<<" ">>, <<"#1">>)>>],
          [kind |-> "list", tokens |-> <<Entry(Dot("primitive", "a"), NotAString)>>],
          [kind |-> "list", tokens |-> <<Entry(Dot("primitive", "a"), <<"#1">>),
                                         Entry(<<>>, <<"#1">>)>>],
          [kind |-> "list", tokens |-> <<Entry(NotAString, <<"#1">>)>>],
          [kind |-> "list", tokens |-> <<Entry(Dot("primitive", "a"), <<"#1">>),
                                         Entry(Dot("semantic", "a"), NotAString)>>]}

\* the export file has not been read
NoJSON == [kind |-> "unread", tokens |-> <<>>]

KV(k, v) == [k |-> k, v |-> v]

\* what parseCSSTokens extracted from the compiled stylesheet
CssChoices ==
    { <<>>,
      << KV(CssName("primitive", "a"), <<"#1">>),
         KV(CssName("semantic", "a"), VarOf(CssName("primitive", "a"))) >>,
      << KV(CssName("primitive", "a"), <<"#9">>),
         KV(CssName("semantic", "z"), <<"#5">>),
         KV(CssName("base", "a"), <<"#3">>) >>,
      << KV(CssName("primitive", "a"), <<"#1">>),
         KV(CssName("semantic", "z"), <<"#5">>) >> }

\* registries left on disk by earlier runs
RegistryZ ==
    [tokens    |-> Upsert(EmptyMap, CssName("semantic", "z"), <<"#7">>),
     removed   |-> <<>>,
     changelog |-> <<LogEntry("update", CssName("semantic", "z"), <<"#7">>, <<"#5">>)>>]

RegistryEmptyValue ==
    [tokens    |-> Upsert(EmptyMap, CssName("semantic", "a"), <<>>),
     removed   |-> <<>>,
     changelog |-> <<LogEntry("add", CssName("semantic", "a"), <<>>, Null)>>]

\* a registry whose removed set names a token the batch brings back and one
\* it does not mention
RegistryRemoved ==
    [tokens    |-> Upsert(EmptyMap, CssName("semantic", "z"), <<"#7">>),
     removed   |-> <<CssName("primitive", "a"), CssName("semantic", "q")>>,
     changelog |-> <<LogEntry("remove", CssName("primitive", "a"), Null, <<"#4">>),
                     LogEntry("remove", CssName("semantic", "q"), Null, <<"#6">>)>>]

Disks ==
    {[css |-> NoFile, scss |-> NoFile, registry |-> NoFile],
     [css |-> NoFile, scss |-> NoFile, registry |-> [state |-> "corrupt"]]}
    \cup {writeOutputFiles(r) : r \in {RegistryZ, RegistryEmptyValue, RegistryRemoved}}

\* what the operator may type at a prompt
Answers ==
    {<<"y">>, <<>>, <<"n">>, <<"n", "o">>, <<"a">>, <<"s">>, <<"q">>,
     <<" ", "Q", " ">>, <<"A">>, <<"x">>}

-----------------------------------------------------------------------------
(* main() of figma-sync-dry-run.js and of figma-sync-apply.js *)

NoExit == 0 - 1

Ev(ev, kind, name) == [ev |-> ev, kind |-> kind, name |-> name]

Exit(code) == pc' = "done" /\ exitCode' = code

Cats == <<"NEW", "MODIFIED", "REMOVED">>
KindIdx(kind) == CHOOSE k \in 1..3 : Cats[k] = kind

ReviewLists == <<diff.added, diff.modified, removableFromTheme>>

RECURSIVE FirstCategory(_, _, _)
\* the next "if (!quit && items.length > 0)" that is entered, from category k on
FirstCategory(k, q, lists) ==
    IF k > 3 THEN 4
    ELSE IF ~q /\ Len(lists[k]) > 0 THEN k
    ELSE FirstCategory(k + 1, q, lists)

PromptEv(f) == Ev("prompt", f.kind, f.items[f.i + 1].name)

CSS_CANDIDATES == <<"dist/ds-preview.css", "preview/css/ds-preview.css">>

\* "let cssFile = null": no candidate exists
NoPath == "null"

\* the first candidate that exists, in the order of CSS_CANDIDATES
resolveCSSFile(existing) ==
    IF \E i \in 1..Len(CSS_CANDIDATES) : CSS_CANDIDATES[i] \in existing
    THEN CSS_CANDIDATES[CHOOSE i \in 1..Len(CSS_CANDIDATES) :
                           /\ CSS_CANDIDATES[i] \in existing
                           /\ \A j \in 1..(i - 1) : CSS_CANDIDATES[j] \notin existing]
    ELSE NoPath

\* a) b) locate the compiled stylesheet and the export file
Resolve ==
    /\ pc = "start"
    /\ \E existing \in SUBSET SeqToSet(CSS_CANDIDATES), figmaFound \in BOOLEAN :
         /\ cssFile' = resolveCSSFile(existing)
         /\ IF cssFile' = NoPath THEN Exit(IF entry = "dry" THEN 0 ELSE 1)
            ELSE IF ~figmaFound THEN Exit(1)
            ELSE pc' = "parse" /\ exitCode' = exitCode
    /\ UNCHANGED <<entry, yes, figmaJSON, disk, disk0, cssTokens, figmaTokens, archErrors, diff,
                   currentRegistry, removableFromTheme, rc, approvedAdded,
                   approvedUpdated, approvedRemoved, skippedCount, quit, trace>>
    /\ UNCHANGED <<out, val, norm, fn>>

\* c) d) parse both inputs
Parse ==
    /\ pc = "parse"
    /\ \E css \in CssChoices, json \in FigmaFiles(MaxBatch) :
         LET r == parseFigmaExport(json)
         IN /\ cssTokens' = css
            /\ figmaJSON' = json
            /\ IF r.ok
               THEN figmaTokens' = r.tokens /\ pc' = "gate" /\ exitCode' = exitCode
               ELSE figmaTokens' = figmaTokens /\ Exit(1)
    /\ UNCHANGED <<entry, yes, cssFile, disk, disk0, archErrors, diff,
                   currentRegistry, removableFromTheme, rc, approvedAdded,
                   approvedUpdated, approvedRemoved, skippedCount, quit, trace>>
    /\ UNCHANGED <<out, val, norm, fn>>

CycleErrors(cycles) == [i \in 1..Len(cycles) |-> Err("cycle", <<>>, cycles[i])]

ArchErrors(entry_, figmaTokens_) ==
    IF entry_ = "dry"
    THEN validateFigmaTiers(figmaTokens_)
            \o CycleErrors(figmaFindCycles(buildFigmaGraph(figmaTokens_)))
    ELSE applyValidateFigmaTiers(figmaTokens_)
            \o CycleErrors(applyFindCycles(buildFigmaGraph(figmaTokens_)))

\* (mutant) a single error does not block
GateBlockedOffByOne(errors) == Len(errors) > 1

\* if (archErrors.length > 0) ... process.exit(1)
GateBlocked(errors) == Len(errors) > 0

\* e) (dry run) / d) (apply): the architecture gate
Gate ==
    /\ pc = "gate"
    /\ archErrors' = ArchErrors(entry, figmaTokens)
    /\ IF GateBlocked(archErrors') THEN Exit(1)
       ELSE pc' = "diff" /\ exitCode' = exitCode
    /\ UNCHANGED <<entry, yes, cssFile, figmaJSON, disk, disk0, cssTokens, figmaTokens, diff,
                   currentRegistry, removableFromTheme, rc, approvedAdded,
                   approvedUpdated, approvedRemoved, skippedCount, quit, trace>>
    /\ UNCHANGED <<out, val, norm, fn>>

\* if (added.length === 0 && modified.length === 0) ... process.exit(0)
NothingToApply(d) == Len(d.added) = 0 /\ Len(d.modified) = 0

\* (mutant) the dry run goes on to the review as the apply script does
DiffDryContinues ==
    /\ pc = "diff"
    /\ diff' = IF entry = "dry" THEN diffTokens(cssTokens, figmaTokens)
               ELSE applyDiffTokens(cssTokens, figmaTokens)
    /\ trace' = Append(trace, Ev("diff", "", <<>>))
    /\ IF NothingToApply(diff') THEN Exit(0)
       ELSE pc' = "load" /\ exitCode' = exitCode
    /\ UNCHANGED <<entry, yes, cssFile, figmaJSON, disk, disk0, cssTokens, figmaTokens, archErrors,
                   currentRegistry, removableFromTheme, rc, approvedAdded,
                   approvedUpdated, approvedRemoved, skippedCount, quit>>
    /\ UNCHANGED <<out, val, norm, fn>>

\* f) g) (dry run): diff, report, exit 0;  e) (apply): diff, maybe exit 0
Diff ==
    /\ pc = "diff"
    /\ diff' = IF entry = "dry" THEN diffTokens(cssTokens, figmaTokens)
               ELSE applyDiffTokens(cssTokens, figmaTokens)
    /\ trace' = Append(trace, Ev("diff", "", <<>>))
    /\ IF entry = "dry" THEN Exit(0)
       ELSE IF NothingToApply(diff') THEN Exit(0)
       ELSE pc' = "load" /\ exitCode' = exitCode
    /\ UNCHANGED <<entry, yes, cssFile, figmaJSON, disk, disk0, cssTokens, figmaTokens, archErrors,
                   currentRegistry, removableFromTheme, rc, approvedAdded,
                   approvedUpdated, approvedRemoved, skippedCount, quit>>
    /\ UNCHANGED <<out, val, norm, fn>>

\* removed.filter(r => r.name in currentRegistry.tokens)
RemovableFromTheme(removed, registry) ==
    SelectSeq(removed, LAMBDA r : r.name \in DOMAIN registry.tokens)

\* (mutant) --yes approves the removals too
YesApprovedWithRemovals(d) ==
    [added |-> d.added, updated |-> d.modified, removedFromTheme |-> d.removed]

\* the --yes path: what is approved without a prompt
YesApproved(d) == [added |-> d.added, updated |-> d.modified, removedFromTheme |-> <<>>]

\* f) load the registry; g) --yes, or open readline and show the first prompt
LoadAndReview ==
    /\ pc = "load"
    /\ currentRegistry' = loadUserThemeRegistry(disk.registry)
    /\ removableFromTheme' = RemovableFromTheme(diff.removed, currentRegistry')
    /\ IF yes
       THEN /\ approvedAdded' = YesApproved(diff).added
            /\ approvedUpdated' = YesApproved(diff).updated
            /\ approvedRemoved' = YesApproved(diff).removedFromTheme
            /\ skippedCount' = Len(removableFromTheme')
            /\ pc' = "reviewed"
            /\ UNCHANGED <<rc, trace>>
       ELSE LET lists == <<diff.added, diff.modified, removableFromTheme'>>
                k == FirstCategory(1, FALSE, lists)
            IN /\ rc' = reviewCategory(Cats[k], lists[k])
               /\ trace' = Append(trace, PromptEv(rc'))
               /\ pc' = "prompt"
               /\ UNCHANGED <<approvedAdded, approvedUpdated, approvedRemoved,
                              skippedCount>>
    /\ UNCHANGED <<entry, yes, cssFile, figmaJSON, disk, disk0, cssTokens, figmaTokens, archErrors, diff,
                   quit, exitCode>>
    /\ UNCHANGED <<out, val, norm, fn>>

\* the operator answers the pending prompt; main runs on to the next prompt
\* or to rl.close()
Answer ==
    /\ pc = "prompt"
    /\ \E raw \in Answers :
         LET a == prompt(raw)
             f == ReviewAnswer(rc, a)
         IN IF f.at = "prompt"
            THEN /\ rc' = f
                 /\ trace' = trace \o <<Ev("answer", a, <<>>), PromptEv(f)>>
                 /\ UNCHANGED <<pc, approvedAdded, approvedUpdated, approvedRemoved,
                                skippedCount, quit>>
            ELSE LET k  == KindIdx(f.kind)
                     k2 == FirstCategory(k + 1, f.quit, ReviewLists)
                 IN /\ approvedAdded'   = IF k = 1 THEN f.approved ELSE approvedAdded
                    /\ approvedUpdated' = IF k = 2 THEN f.approved ELSE approvedUpdated
                    /\ approvedRemoved' = IF k = 3 THEN f.approved ELSE approvedRemoved
                    /\ skippedCount' = skippedCount + Len(f.skipped)
                    /\ quit' = f.quit
                    /\ IF k2 <= 3
                       THEN /\ rc' = reviewCategory(Cats[k2], ReviewLists[k2])
                            /\ trace' = trace \o <<Ev("answer", a, <<>>), PromptEv(rc')>>
                            /\ pc' = "prompt"
                       ELSE /\ rc' = f
                            /\ trace' = Append(trace, Ev("answer", a, <<>>))
                            /\ pc' = "reviewed"
    /\ UNCHANGED <<entry, yes, cssFile, figmaJSON, disk, disk0, cssTokens, figmaTokens, archErrors, diff,
                   currentRegistry, removableFromTheme, exitCode>>
    /\ UNCHANGED <<out, val, norm, fn>>

\* what an explicit abort at the pending prompt would approve and write
AbortFrame == ReviewAnswer(rc, "quit")

AbortChanges ==
    [added            |-> IF rc.kind = "NEW" THEN AbortFrame.approved ELSE approvedAdded,
     updated          |-> IF rc.kind = "MODIFIED" THEN AbortFrame.approved
                          ELSE approvedUpdated,
     removedFromTheme |-> IF rc.kind = "REMOVED" THEN AbortFrame.approved
                          ELSE approvedRemoved]

AbortTotal ==
    Len(AbortChanges.added) + Len(AbortChanges.updated)
        + Len(AbortChanges.removedFromTheme)

AbortDisk ==
    IF AbortTotal = 0 THEN disk
    ELSE writeOutputFiles(mergeRegistryChanges(currentRegistry, AbortChanges))

\* (mutant) the interrupt handler writes what was accepted so far
RlSigintWritesAccepted ==
    /\ pc = "prompt"
    /\ Exit(130)
    /\ trace' = Append(trace, Ev("sigint", "readline", <<>>))
    /\ disk' = AbortDisk
    /\ UNCHANGED <<entry, yes, cssFile, figmaJSON, disk0, cssTokens, figmaTokens, archErrors, diff,
                   currentRegistry, removableFromTheme, rc, approvedAdded,
                   approvedUpdated, approvedRemoved, skippedCount, quit>>
    /\ UNCHANGED <<out, val, norm, fn>>

\* rl.on('SIGINT'): rl.close(); process.exit(130)
RlSigint ==
    /\ pc = "prompt"
    /\ Exit(130)
    /\ trace' = Append(trace, Ev("sigint", "readline", <<>>))
    /\ UNCHANGED <<entry, yes, cssFile, figmaJSON, disk, disk0, cssTokens, figmaTokens, archErrors, diff,
                   currentRegistry, removableFromTheme, rc, approvedAdded,
                   approvedUpdated, approvedRemoved, skippedCount, quit>>
    /\ UNCHANGED <<out, val, norm, fn>>

\* process.on('SIGINT'): process.exit(130); the handler can only run while
\* main is suspended, that is at a prompt
ProcessSigint ==
    /\ pc = "prompt"
    /\ Exit(130)
    /\ trace' = Append(trace, Ev("sigint", "process", <<>>))
    /\ UNCHANGED <<entry, yes, cssFile, figmaJSON, disk, disk0, cssTokens, figmaTokens, archErrors, diff,
                   currentRegistry, removableFromTheme, rc, approvedAdded,
                   approvedUpdated, approvedRemoved, skippedCount, quit>>
    /\ UNCHANGED <<out, val, norm, fn>>

TotalApproved == Len(approvedAdded) + Len(approvedUpdated) + Len(approvedRemoved)

\* (mutant) an abort always exits with 2, approvals or not
AfterReviewAbortAlwaysTwo ==
    /\ pc = "reviewed"
    /\ IF ~yes /\ quit THEN Exit(2)
       ELSE IF TotalApproved = 0 THEN Exit(0)
       ELSE pc' = "merge" /\ exitCode' = exitCode
    /\ UNCHANGED <<entry, yes, cssFile, figmaJSON, disk, disk0, cssTokens, figmaTokens, archErrors, diff,
                   currentRegistry, removableFromTheme, rc, approvedAdded,
                   approvedUpdated, approvedRemoved, skippedCount, quit, trace>>
    /\ UNCHANGED <<out, val, norm, fn>>

\* the exits after the review: 2 (quit, nothing approved), 0 (nothing approved)
AfterReview ==
    /\ pc = "reviewed"
    /\ IF ~yes /\ quit /\ TotalApproved = 0 THEN Exit(2)
       ELSE IF TotalApproved = 0 THEN Exit(0)
       ELSE pc' = "merge" /\ exitCode' = exitCode
    /\ UNCHANGED <<entry, yes, cssFile, figmaJSON, disk, disk0, cssTokens, figmaTokens, archErrors, diff,
                   currentRegistry, removableFromTheme, rc, approvedAdded,
                   approvedUpdated, approvedRemoved, skippedCount, quit, trace>>
    /\ UNCHANGED <<out, val, norm, fn>>

ApprovedChanges ==
    [added |-> approvedAdded, updated |-> approvedUpdated,
     removedFromTheme |-> approvedRemoved]

NoOutput == [state |-> "none"]

\* (mutant) the contents are generated from the registry as loaded
MergeSkipped ==
    /\ pc = "merge"
    /\ out' = [state |-> "generated",
               files |-> writeOutputFiles(currentRegistry)]
    /\ pc' = "write-css"
    /\ UNCHANGED <<entry, yes, cssFile, figmaJSON, disk, disk0, cssTokens, figmaTokens, archErrors, diff,
                   currentRegistry, removableFromTheme, rc, approvedAdded,
                   approvedUpdated, approvedRemoved, skippedCount, quit, exitCode,
                   trace>>
    /\ UNCHANGED <<val, norm, fn>>

\* h) mergeRegistryChanges; writeOutputFiles up to its first write: all three
\* contents are generated in memory
Merge ==
    /\ pc = "merge"
    /\ out' = [state |-> "generated",
               files |-> writeOutputFiles(
                             mergeRegistryChanges(currentRegistry, ApprovedChanges))]
    /\ pc' = "write-css"
    /\ UNCHANGED <<entry, yes, cssFile, figmaJSON, disk, disk0, cssTokens, figmaTokens, archErrors, diff,
                   currentRegistry, removableFromTheme, rc, approvedAdded,
                   approvedUpdated, approvedRemoved, skippedCount, quit, exitCode,
                   trace>>
    /\ UNCHANGED <<val, norm, fn>>

\* fs.writeFileSync(cssOutPath, cssContent)
WriteCss ==
    /\ pc = "write-css"
    /\ disk' = [disk EXCEPT !.css = out.files.css]
    /\ trace' = Append(trace, Ev("write", "css", <<>>))
    /\ pc' = "write-scss"
    /\ UNCHANGED <<entry, yes, cssFile, figmaJSON, disk0, cssTokens, figmaTokens, archErrors, diff,
                   currentRegistry, removableFromTheme, rc, approvedAdded,
                   approvedUpdated, approvedRemoved, skippedCount, quit, exitCode,
                   out>>
    /\ UNCHANGED <<val, norm, fn>>

\* fs.writeFileSync(scssOutPath, scssContent)
WriteScss ==
    /\ pc = "write-scss"
    /\ disk' = [disk EXCEPT !.scss = out.files.scss]
    /\ trace' = Append(trace, Ev("write", "scss", <<>>))
    /\ pc' = "write-registry"
    /\ UNCHANGED <<entry, yes, cssFile, figmaJSON, disk0, cssTokens, figmaTokens, archErrors, diff,
                   currentRegistry, removableFromTheme, rc, approvedAdded,
                   approvedUpdated, approvedRemoved, skippedCount, quit, exitCode,
                   out>>
    /\ UNCHANGED <<val, norm, fn>>

\* fs.writeFileSync(regOutPath, registryContent); i) summary, exit 0
WriteRegistry ==
    /\ pc = "write-registry"
    /\ disk' = [disk EXCEPT !.registry = out.files.registry]
    /\ trace' = Append(trace, Ev("write", "registry", <<>>))
    /\ Exit(0)
    /\ UNCHANGED <<entry, yes, cssFile, figmaJSON, disk0, cssTokens, figmaTokens, archErrors, diff,
                   currentRegistry, removableFromTheme, rc, approvedAdded,
                   approvedUpdated, approvedRemoved, skippedCount, quit, out>>
    /\ UNCHANGED <<val, norm, fn>>

\* the file the write at pc would create
WriteTarget(at) ==
    IF at = "write-css" THEN "css" ELSE IF at = "write-scss" THEN "scss" ELSE "registry"

\* (mutant) a failed write restores the files the run found
WriteFailsRollsBack ==
    /\ pc \in {"write-css", "write-scss", "write-registry"}
    /\ \E what \in {WriteTarget(pc)} \cup (IF pc = "write-css" THEN {"mkdir"} ELSE {}) :
          trace' = Append(trace, Ev("error", what, <<>>))
    /\ Exit(1)
    /\ disk' = disk0
    /\ UNCHANGED <<entry, yes, cssFile, figmaJSON, disk0, cssTokens, figmaTokens, archErrors, diff,
                   currentRegistry, removableFromTheme, rc, approvedAdded,
                   approvedUpdated, approvedRemoved, skippedCount, quit, out>>
    /\ UNCHANGED <<val, norm, fn>>

\* mkdirSync or the pending writeFileSync throws: writeOutputFiles is left,
\* main().catch reports the error and exits 1; the file is not written
WriteFails ==
    /\ pc \in {"write-css", "write-scss", "write-registry"}
    /\ \E what \in {WriteTarget(pc)} \cup (IF pc = "write-css" THEN {"mkdir"} ELSE {}) :
          trace' = Append(trace, Ev("error", what, <<>>))
    /\ Exit(1)
    /\ UNCHANGED <<entry, yes, cssFile, figmaJSON, disk, disk0, cssTokens, figmaTokens, archErrors, diff,
                   currentRegistry, removableFromTheme, rc, approvedAdded,
                   approvedUpdated, approvedRemoved, skippedCount, quit, out>>
    /\ UNCHANGED <<val, norm, fn>>

EmptyDiff == [added |-> <<>>, modified |-> <<>>, removed |-> <<>>, unchanged |-> <<>>]

Idle == [pc |-> "idle"]

Init ==
    /\ entry \in {"dry", "apply"}
    /\ yes \in (IF entry = "apply" THEN BOOLEAN ELSE {FALSE})
    /\ cssFile = NoPath
    /\ figmaJSON = NoJSON
    /\ pc = "start"
    /\ disk \in Disks
    /\ disk0 = disk
    /\ cssTokens = <<>>
    /\ figmaTokens = <<>>
    /\ archErrors = <<>>
    /\ diff = EmptyDiff
    /\ currentRegistry = EmptyRegistry
    /\ removableFromTheme = <<>>
    /\ rc = NoFrame
    /\ approvedAdded = <<>>
    /\ approvedUpdated = <<>>
    /\ approvedRemoved = <<>>
    /\ skippedCount = 0
    /\ quit = FALSE
    /\ exitCode = NoExit
    /\ trace = <<>>
    /\ out = NoOutput
    /\ val = Idle
    /\ norm = Idle
    /\ fn = Idle

Next ==
    \/ Resolve
    \/ Parse
    \/ Gate
    \/ Diff
    \/ LoadAndReview
    \/ Answer
    \/ RlSigint
    \/ ProcessSigint
    \/ AfterReview
    \/ Merge
    \/ WriteCss
    \/ WriteScss
    \/ WriteRegistry
    \/ WriteFails

Spec == Init /\ [][Next]_vars

-----------------------------------------------------------------------------
(* validate-tokens.js: the stylesheet validator.  A stylesheet is a        *)
(* sequence of trimmed lines, a line a sequence of atoms.                  *)

\* (mutant) base tokens may also reference primitives
ALLOWED_DEPS_BaseToPrimitive(tier) ==
    CASE tier = "primitive" -> {}
      [] tier = "semantic"  -> {"primitive"}
      [] tier = "component" -> {"semantic", "base"}
      [] tier = "base"      -> {"semantic", "primitive"}
      [] OTHER -> {"primitive", "semantic", "component", "base", "unknown"}

\* tier -> the tiers a token of that tier may reference
ALLOWED_DEPS(tier) ==
    CASE tier = "primitive" -> {}
      [] tier = "semantic"  -> {"primitive"}
      [] tier = "component" -> {"semantic", "base"}
      [] tier = "base"      -> {"semantic"}
      [] OTHER -> {"primitive", "semantic", "component", "base", "unknown"}

getTier(name) ==
    IF startsWith(name, <<"-", "-", "primitive", "-">>) THEN "primitive"
    ELSE IF startsWith(name, <<"-", "-", "semantic", "-">>) THEN "semantic"
    ELSE IF startsWith(name, <<"-", "-", "component", "-">>) THEN "component"
    ELSE IF startsWith(name, <<"-", "-", "base", "-">>) THEN "base"
    ELSE "unknown"

\* the atoms that [\w-] matches
WordAtoms ==
    {"-", "primitive", "semantic", "component", "base", "x", "a", "b", "c", "d",
     "m", "u", "color", "tokens"}

\* the longest prefix of s that [\w-]* matches
RECURSIVE WordRun(_)
WordRun(s) ==
    IF s = <<>> \/ Head(s) \notin WordAtoms THEN <<>>
    ELSE <<Head(s)>> \o WordRun(Tail(s))

\* the match of /(--[\w-]+)/ at the start of s: group 1, or Null
DashedName(s) ==
    IF startsWith(s, <<"-", "-">>) /\ WordRun(SubSeq(s, 3, Len(s))) # <<>>
    THEN <<"-", "-">> \o WordRun(SubSeq(s, 3, Len(s)))
    ELSE Null

\* /var\(\s*(--[\w-]+)/g : group 1 of every match, in order
RECURSIVE extractVarRefs(_)
extractVarRefs(value) ==
    IF value = <<>> THEN <<>>
    ELSE IF Head(value) = "var(" /\ DashedName(TrimLeft(Tail(value))) # Null
    THEN <<DashedName(TrimLeft(Tail(value)))>> \o extractVarRefs(Tail(value))
    ELSE extractVarRefs(Tail(value))

CountOf(line, a) == Cardinality({i \in 1..Len(line) : line[i] = a})

\* /^@layer\s+([\w-]+)\s*\{/ : group 1, or Null
LayerMatch(line) ==
    IF Len(line) >= 4 /\ line[1] = "@layer" /\ line[2] = " "
    THEN LET rest == TrimLeft(SubSeq(line, 3, Len(line)))
             nm   == WordRun(rest)
             tl   == TrimLeft(SubSeq(rest, Len(nm) + 1, Len(rest)))
         IN IF nm # <<>> /\ tl # <<>> /\ Head(tl) = "{" THEN nm ELSE Null
    ELSE Null

\* /^:root\s*\{/
RootOpenMatch(line) ==
    /\ line # <<>> /\ Head(line) = ":root"
    /\ TrimLeft(Tail(line)) # <<>> /\ Head(TrimLeft(Tail(line))) = "{"

NoMatch == [name |-> Null, value |-> Null]

\* /^(--[\w-]+)\s*:\s*(.+?)\s*;/ : groups [name, value], or NoMatch
DefMatch(line) ==
    LET nm == DashedName(line)
    IN IF nm = Null THEN NoMatch
       ELSE LET after == TrimLeft(SubSeq(line, Len(nm) + 1, Len(line)))
            IN IF after = <<>> \/ Head(after) # ":" THEN NoMatch
               ELSE LET v0 == TrimLeft(Tail(after))
                        ends == {k \in 1..(Len(v0) - 1) :
                                    /\ TrimLeft(SubSeq(v0, k + 1, Len(v0))) # <<>>
                                    /\ Head(TrimLeft(SubSeq(v0, k + 1, Len(v0)))) = ";"}
                    IN IF ends = {} THEN NoMatch
                       ELSE LET k == CHOOSE k \in ends : \A j \in ends : k <= j
                            IN [name |-> nm, value |-> SubSeq(v0, 1, k)]

\* while (layerStack.length > 0 && braceDepth < top.depth) layerStack.pop()
RECURSIVE PopLayers(_, _)
PopLayers(layerStack, braceDepth) ==
    IF layerStack # <<>> /\ braceDepth < layerStack[Len(layerStack)].depth
    THEN PopLayers(SubSeq(layerStack, 1, Len(layerStack) - 1), braceDepth)
    ELSE layerStack

\* (mutant) a primitive already in ruleUsages is not pushed again
RECURSIVE AddUsagesOncePerToken(_, _, _)
AddUsagesOncePerToken(st, names, lineNum) ==
    IF names = <<>> THEN st
    ELSE LET tokenName == Head(names)
             st1 == [st EXCEPT
                        !.ruleUsages = SetAdd(@, tokenName),
                        !.primInRules =
                            IF startsWith(tokenName, <<"-", "-", "primitive", "-">>)
                               /\ tokenName \notin SeqToSet(st.ruleUsages)
                            THEN Append(@, [token |-> tokenName, line |-> lineNum])
                            ELSE @]
         IN AddUsagesOncePerToken(st1, Tail(names), lineNum)

\* ruleUsages.add / primInRules.push for every var() of a rule line
RECURSIVE AddUsages(_, _, _)
AddUsages(st, names, lineNum) ==
    IF names = <<>> THEN st
    ELSE LET tokenName == Head(names)
             st1 == [st EXCEPT
                        !.ruleUsages = SetAdd(@, tokenName),
                        !.primInRules =
                            IF startsWith(tokenName, <<"-", "-", "primitive", "-">>)
                            THEN Append(@, [token |-> tokenName, line |-> lineNum])
                            ELSE @]
         IN AddUsages(st1, Tail(names), lineNum)

\* the body of the for loop of parseCSS, for line i of the stylesheet
ParseLine(st, line, lineNum) ==
    IF line = <<>> \/ Head(line) \in {"/*", "//"} THEN st
    ELSE LET layerMatch == LayerMatch(line)
             isRootOpen == ~st.inRoot /\ RootOpenMatch(line)
             braceDepth == st.braceDepth + CountOf(line, "{") - CountOf(line, "}")
             pushed     == IF layerMatch # Null
                           THEN Append(st.layerStack,
                                       [name |-> layerMatch, depth |-> braceDepth])
                           ELSE st.layerStack
             layerStack == PopLayers(pushed, braceDepth)
             inRoot1    == st.inRoot \/ isRootOpen
             rootDepth1 == IF isRootOpen THEN braceDepth ELSE st.rootDepth
             leaves     == inRoot1 /\ braceDepth < rootDepth1
             inRoot     == inRoot1 /\ ~leaves
             rootDepth  == IF leaves THEN 0 - 1 ELSE rootDepth1
             currentLayer == IF layerStack # <<>>
                             THEN layerStack[Len(layerStack)].name ELSE Null
             st1 == [st EXCEPT !.braceDepth = braceDepth, !.layerStack = layerStack,
                               !.inRoot = inRoot, !.rootDepth = rootDepth]
             defMatch == DefMatch(line)
         IN IF inRoot
            THEN IF defMatch # NoMatch /\ ~MapHas(st.tokenDefs, defMatch.name)
                 THEN [st1 EXCEPT !.tokenDefs =
                          MapSet(@, defMatch.name,
                                 [value |-> defMatch.value,
                                  refs  |-> extractVarRefs(defMatch.value),
                                  line  |-> lineNum,
                                  layer |-> currentLayer])]
                 ELSE st1
            ELSE IF braceDepth > 0
            THEN AddUsages(st1, extractVarRefs(line), lineNum)
            ELSE st1

RECURSIVE ParseLines(_, _, _)
ParseLines(st, lines, i) ==
    IF i > Len(lines) THEN st ELSE ParseLines(ParseLine(st, lines[i], i), lines, i + 1)

parseCSS(css) ==
    LET st == ParseLines([braceDepth |-> 0, inRoot |-> FALSE, rootDepth |-> 0 - 1,
                          layerStack |-> <<>>, tokenDefs |-> <<>>, ruleUsages |-> <<>>,
                          primInRules |-> <<>>], css, 1)
    IN [tokenDefs |-> st.tokenDefs, ruleUsages |-> st.ruleUsages,
        primInRules |-> st.primInRules]

\* graph.set(name, refs) for every definition
buildGraph(tokenDefs) == [i \in 1..Len(tokenDefs) |-> KV(tokenDefs[i].k, tokenDefs[i].v.refs)]

RECURSIVE Concat(_)
Concat(seqs) == IF seqs = <<>> THEN <<>> ELSE Head(seqs) \o Concat(Tail(seqs))

\* RULE 1 without the second loop, over the rule usages
findMissingRefsOfDefinitionsOnly(tokenDefs, ruleUsages) ==
    LET defined == SeqToSet(MapKeys(tokenDefs))
        OfDef(d) ==
            LET miss == SelectSeq(d.v.refs, LAMBDA dep : dep \notin defined)
            IN [j \in 1..Len(miss) |->
                   [consumer |-> d.k, missing |-> miss[j], line |-> d.v.line]]
    IN Concat([i \in 1..Len(tokenDefs) |-> OfDef(tokenDefs[i])])

\* RULE 1
findMissingRefs(tokenDefs, ruleUsages) ==
    LET defined == SeqToSet(MapKeys(tokenDefs))
        OfDef(d) ==
            LET miss == SelectSeq(d.v.refs, LAMBDA dep : dep \notin defined)
            IN [j \in 1..Len(miss) |->
                   [consumer |-> d.k, missing |-> miss[j], line |-> d.v.line]]
        used == SelectSeq(ruleUsages, LAMBDA u : u \notin defined)
    IN Concat([i \in 1..Len(tokenDefs) |-> OfDef(tokenDefs[i])])
       \o [j \in 1..Len(used) |->
              [consumer |-> <<"(css rule)">>, missing |-> used[j], line |-> 0]]

\* (mutant) the cycle is cut from the start of the path, not from dep
DfsStepWholePath(graph, st) ==
    LET top   == Len(st.callStack)
        frame == st.callStack[top]
        deps  == GraphGet(graph, frame.node)
    IN IF frame.childIdx >= Len(deps)
       THEN [st EXCEPT !.color = MapSet(@, frame.node, BLACK),
                       !.callStack = SubSeq(@, 1, top - 1),
                       !.path = SubSeq(@, 1, Len(@) - 1)]
       ELSE LET dep    == deps[frame.childIdx + 1]
                stack1 == [st.callStack EXCEPT ![top].childIdx = @ + 1]
            IN IF ~MapHas(st.color, dep)
               THEN [st EXCEPT !.callStack = stack1]
               ELSE IF MapGet(st.color, dep) = GRAY
               THEN [st EXCEPT !.callStack = stack1,
                        !.cycles = Append(@,
                            SubSeq(st.path, 1, Len(st.path))
                                \o <<dep>>)]
               ELSE IF MapGet(st.color, dep) = WHITE
               THEN [st EXCEPT !.color = MapSet(@, dep, GRAY),
                        !.callStack = Append(stack1, [node |-> dep, childIdx |-> 0]),
                        !.path = Append(@, dep)]
               ELSE [st EXCEPT !.callStack = stack1]

\* RULE 2: one dependency of the top frame examined, or the frame popped;
\* st = [color, callStack, path, cycles]
DfsStep(graph, st) ==
    LET top   == Len(st.callStack)
        frame == st.callStack[top]
        deps  == GraphGet(graph, frame.node)
    IN IF frame.childIdx >= Len(deps)
       THEN [st EXCEPT !.color = MapSet(@, frame.node, BLACK),
                       !.callStack = SubSeq(@, 1, top - 1),
                       !.path = SubSeq(@, 1, Len(@) - 1)]
       ELSE LET dep    == deps[frame.childIdx + 1]
                stack1 == [st.callStack EXCEPT ![top].childIdx = @ + 1]
            IN IF ~MapHas(st.color, dep)
               THEN [st EXCEPT !.callStack = stack1]
               ELSE IF MapGet(st.color, dep) = GRAY
               THEN [st EXCEPT !.callStack = stack1,
                        !.cycles = Append(@,
                            SubSeq(st.path, IndexOf(st.path, dep), Len(st.path))
                                \o <<dep>>)]
               ELSE IF MapGet(st.color, dep) = WHITE
               THEN [st EXCEPT !.color = MapSet(@, dep, GRAY),
                        !.callStack = Append(stack1, [node |-> dep, childIdx |-> 0]),
                        !.path = Append(@, dep)]
               ELSE [st EXCEPT !.callStack = stack1]

RECURSIVE DfsLoop(_, _)
DfsLoop(graph, st) ==
    IF st.callStack = <<>> THEN st ELSE DfsLoop(graph, DfsStep(graph, st))

\* (mutant) the start node is not coloured
DfsEnterNoGray(st, start) ==
    [st EXCEPT !.callStack = <<[node |-> start, childIdx |-> 0]>>,
               !.path = <<start>>]

\* the three statements of dfs before its while loop
DfsEnter(st, start) ==
    [st EXCEPT !.color = MapSet(@, start, GRAY),
               !.callStack = <<[node |-> start, childIdx |-> 0]>>,
               !.path = <<start>>]

dfs(graph, st, start) == DfsLoop(graph, DfsEnter(st, start))

\* for (const name of graph.keys()) if (color.get(name) === WHITE) dfs(name)
RECURSIVE DfsOuter(_, _, _)
DfsOuter(graph, st, i) ==
    IF i > Len(graph) THEN st
    ELSE DfsOuter(graph,
            IF MapGet(st.color, graph[i].k) = WHITE THEN dfs(graph, st, graph[i].k)
            ELSE st,
            i + 1)

\* (mutant) the search is started at the first key only
findCyclesFromFirstKey(graph) ==
    IF graph = <<>> THEN <<>>
    ELSE dfs(graph,
             [color     |-> [i \in 1..Len(graph) |-> KV(graph[i].k, WHITE)],
              callStack |-> <<>>,
              path      |-> <<>>,
              cycles    |-> <<>>], graph[1].k).cycles

findCycles(graph) ==
    DfsOuter(graph,
        [color     |-> [i \in 1..Len(graph) |-> KV(graph[i].k, WHITE)],
         callStack |-> <<>>,
         path      |-> <<>>,
         cycles    |-> <<>>], 1).cycles

\* RULE 3 with primitives reporting only the references whose tier is known
findTierViolationsKnownDepsOnly(tokenDefs) ==
    LET Violation(d, dep) ==
            [token |-> d.k, dep |-> dep, tokenTier |-> getTier(d.k),
             depTier |-> getTier(dep), line |-> d.v.line]
        OfDef(d) ==
            LET tokenTier == getTier(d.k)
                bad == IF tokenTier = "unknown" THEN <<>>
                       ELSE IF tokenTier = "primitive"
                            THEN SelectSeq(d.v.refs, LAMBDA dep : getTier(dep) # "unknown")
                       ELSE SelectSeq(d.v.refs,
                                LAMBDA dep : getTier(dep) \notin ALLOWED_DEPS(tokenTier))
            IN [j \in 1..Len(bad) |-> Violation(d, bad[j])]
    IN Concat([i \in 1..Len(tokenDefs) |-> OfDef(tokenDefs[i])])

\* RULE 3
findTierViolations(tokenDefs) ==
    LET Violation(d, dep) ==
            [token |-> d.k, dep |-> dep, tokenTier |-> getTier(d.k),
             depTier |-> getTier(dep), line |-> d.v.line]
        OfDef(d) ==
            LET tokenTier == getTier(d.k)
                bad == IF tokenTier = "unknown" THEN <<>>
                       ELSE IF tokenTier = "primitive" THEN d.v.refs
                       ELSE SelectSeq(d.v.refs,
                                LAMBDA dep : getTier(dep) \notin ALLOWED_DEPS(tokenTier))
            IN [j \in 1..Len(bad) |-> Violation(d, bad[j])]
    IN Concat([i \in 1..Len(tokenDefs) |-> OfDef(tokenDefs[i])])

\* (mutant) a name used only in a rule counts as an orphan
findOrphansIgnoringRules(tokenDefs, graph, ruleUsages) ==
    LET referencedByTokens == UNION {SeqToSet(graph[i].v) : i \in 1..Len(graph)}
    IN SelectSeq(MapKeys(tokenDefs), LAMBDA name : name \notin referencedByTokens)

\* RULE 4
findOrphans(tokenDefs, graph, ruleUsages) ==
    LET referencedByTokens == UNION {SeqToSet(graph[i].v) : i \in 1..Len(graph)}
    IN SelectSeq(MapKeys(tokenDefs),
           LAMBDA name : name \notin referencedByTokens /\ name \notin SeqToSet(ruleUsages))

\* RULE 5
findUnusedSemantics(tokenDefs, graph, ruleUsages) ==
    LET usedByComponents ==
            UNION {{dep \in SeqToSet(graph[i].v) : getTier(dep) = "semantic"} :
                      i \in {i \in 1..Len(graph) : getTier(graph[i].k) = "component"}}
    IN SelectSeq(MapKeys(tokenDefs),
           LAMBDA name : /\ getTier(name) = "semantic"
                         /\ name \notin usedByComponents
                         /\ name \notin SeqToSet(ruleUsages))

Finding(rule, what) == [rule |-> rule, what |-> what]

\* main e): rules 1, 2, 3, 6 are errors
CompileErrors(missingRefs, cycles, tierViolations, primInRules) ==
    [i \in 1..Len(missingRefs) |-> Finding("missing-reference", missingRefs[i])]
    \o [i \in 1..Len(cycles) |-> Finding("cycle", cycles[i])]
    \o [i \in 1..Len(tierViolations) |-> Finding("tier-violation", tierViolations[i])]
    \o [i \in 1..Len(primInRules) |-> Finding("direct-primitive", primInRules[i])]

\* main e): rules 4, 5 are warnings
CompileWarnings(orphans, unusedSemantics) ==
    [i \in 1..Len(orphans) |-> Finding("orphan", orphans[i])]
    \o [i \in 1..Len(unusedSemantics) |-> Finding("unused-semantic", unusedSemantics[i])]

\* one console.log of a report, blank lines and separators left out
Line(kind, what) == [kind |-> kind, what |-> what]

\* printReport: the lines in the order they are logged
printReport(noCycles, errors, warnings) ==
    <<Line("header", "Token Validation Report")>>
    \o (IF noCycles THEN <<Line("cycle-status", "No circular dependencies")>> ELSE <<>>)
    \o [i \in 1..Len(errors) |-> Line("error", errors[i])]
    \o [i \in 1..Len(warnings) |-> Line("warning", warnings[i])]
    \o <<Line("summary", IF Len(errors) > 0 THEN "Build FAILED" ELSE "Build PASSED")>>

\* (mutant) a single error is tolerated
ExitCodeOfTolerant(errors) == IF Len(errors) > 1 THEN 1 ELSE 0

\* process.exit(errors.length > 0 ? 1 : 0)
ExitCodeOf(errors) == IF Len(errors) > 0 THEN 1 ELSE 0

-----------------------------------------------------------------------------
(* Stylesheets the validator is run on *)

DefNames ==
    << CssName("primitive", "a"), CssName("semantic", "a"), CssName("component", "a"),
       CssName("base", "a"), CssName("x", "a") >>

\* the values of definitions: a raw value, one reference, two references
ValueChoices ==
    {<<"#1">>}
    \cup {VarOf(n) : n \in SeqToSet(DefNames) \cup {CssName("semantic", "m")}}
    \cup {VarOf(CssName("semantic", "a")) \o <<" ">> \o VarOf(CssName("base", "a"))}

UseNames ==
    << CssName("primitive", "a"), CssName("semantic", "a"), CssName("component", "a"),
       CssName("semantic", "m") >>

DefLine(name, value) == name \o <<":", " ">> \o value \o <<";">>
UseLine(name) == <<"color", ":", " ">> \o VarOf(name) \o <<";">>

\* @layer tokens { :root { definitions } }  .btn { declarations }
Sheet(D, f, U) ==
    LET ds == SortedSeq(D)
        us == SortedSeq(U)
    IN << <<"@layer", " ", "tokens", " ", "{">>, <<":root", " ", "{">> >>
       \o [i \in 1..Len(ds) |-> DefLine(DefNames[ds[i]], f[ds[i]])]
       \o << <<"}">>, <<"}">>, <<".btn", " ", "{">> >>
       \o [i \in 1..Len(us) |-> UseLine(UseNames[us[i]])]
       \o << <<"}">> >>

\* a comment, a blank line, a second definition of a name, a definition
\* outside :root, a :root block outside any layer; declarations outside any
\* block; a primitive referenced in :root, and three times in a rule; a
\* :root block written on one line, followed by a rule
OddSheets ==
    { << <<"/*", "{", "*/">>, <<":root", "{">>,
         DefLine(CssName("semantic", "a"), VarOf(CssName("primitive", "a"))),
         <<>>,
         DefLine(CssName("semantic", "a"), <<"#1">>),
         <<"}">>,
         <<".btn", " ", "{">>,
         DefLine(CssName("component", "a"), VarOf(CssName("primitive", "a"))),
         <<"}">> >>,
      << DefLine(CssName("primitive", "a"), <<"#1">>),
         UseLine(CssName("primitive", "a")) >>,
      << <<":root", " ", "{">>,
         DefLine(CssName("semantic", "a"), VarOf(CssName("primitive", "b"))),
         <<"}">>,
         <<".btn", " ", "{">>,
         <<"color", ":", " ">> \o VarOf(CssName("primitive", "a")) \o <<" ">>
            \o VarOf(CssName("primitive", "a")) \o <<";">>,
         UseLine(CssName("primitive", "a")),
         <<"}">> >>,
      << <<":root", " ", "{", " ">> \o DefLine(CssName("primitive", "a"), <<"#1">>)
            \o <<" ", "}">>,
         <<".btn", " ", "{">>,
         DefLine(CssName("component", "a"), VarOf(CssName("primitive", "a"))),
         <<"}">> >> }

-----------------------------------------------------------------------------
(* main of the validator *)

ValStart ==
    [pc |-> "start", css |-> <<>>, tokenDefs |-> <<>>, ruleUsages |-> <<>>,
     primInRules |-> <<>>, missingRefs |-> <<>>, cycles |-> <<>>,
     tierViolations |-> <<>>, orphans |-> <<>>, unusedSemantics |-> <<>>,
     errors |-> <<>>, warnings |-> <<>>, compiled |-> FALSE, report |-> <<>>,
     exitCode |-> NoExit]

\* a) resolveCSSFile finds no file: exit 0
ValNoCss ==
    /\ val.pc = "start"
    /\ val' = [val EXCEPT !.pc = "done", !.exitCode = 0]
    /\ UNCHANGED <<runVars, norm, fn>>

\* b) readFileSync throws: exit 1
ValReadFails ==
    /\ val.pc = "start"
    /\ val' = [val EXCEPT !.pc = "done", !.exitCode = 1]
    /\ UNCHANGED <<runVars, norm, fn>>

\* b) readFileSync returns the stylesheet
ValRead ==
    /\ val.pc = "start"
    /\ \/ \E css \in OddSheets : val' = [val EXCEPT !.pc = "read", !.css = css]
       \/ \E D \in SUBSET (1..Len(DefNames)), U \in SUBSET (1..Len(UseNames)) :
             /\ Cardinality(D) + Cardinality(U) <= MaxItems
             /\ \E f \in [D -> ValueChoices] :
                   val' = [val EXCEPT !.pc = "read", !.css = Sheet(D, f, U)]
    /\ UNCHANGED <<runVars, norm, fn>>

\* b) parseCSS
ValParse ==
    /\ val.pc = "read"
    /\ LET parsed == parseCSS(val.css)
       IN val' = [val EXCEPT !.pc = "parsed", !.tokenDefs = parsed.tokenDefs,
                             !.ruleUsages = parsed.ruleUsages,
                             !.primInRules = parsed.primInRules]
    /\ UNCHANGED <<runVars, norm, fn>>

\* c) buildGraph, d) the five rules
ValCheck ==
    /\ val.pc = "parsed"
    /\ LET graph == buildGraph(val.tokenDefs)
       IN val' = [val EXCEPT
                     !.pc = "checked",
                     !.missingRefs = findMissingRefs(val.tokenDefs, val.ruleUsages),
                     !.cycles = findCycles(graph),
                     !.tierViolations = findTierViolations(val.tokenDefs),
                     !.orphans = findOrphans(val.tokenDefs, graph, val.ruleUsages),
                     !.unusedSemantics =
                         findUnusedSemantics(val.tokenDefs, graph, val.ruleUsages)]
    /\ UNCHANGED <<runVars, norm, fn>>

\* e) compile the error and warning lists, f) printReport
ValCompile ==
    /\ val.pc = "checked"
    /\ LET errors   == CompileErrors(val.missingRefs, val.cycles,
                                     val.tierViolations, val.primInRules)
           warnings == CompileWarnings(val.orphans, val.unusedSemantics)
       IN val' = [val EXCEPT
                     !.pc = "report", !.compiled = TRUE,
                     !.errors = errors,
                     !.warnings = warnings,
                     !.report = printReport(val.cycles = <<>>, errors, warnings)]
    /\ UNCHANGED <<runVars, norm, fn>>

\* g) process.exit
ValExit ==
    /\ val.pc = "report"
    /\ val' = [val EXCEPT !.pc = "done", !.exitCode = ExitCodeOf(val.errors)]
    /\ UNCHANGED <<runVars, norm, fn>>

RunIdle ==
    /\ entry = "none" /\ yes = FALSE /\ cssFile = NoPath /\ figmaJSON = NoJSON /\ pc = "idle"
    /\ disk = [css |-> NoFile, scss |-> NoFile, registry |-> NoFile] /\ disk0 = disk
    /\ cssTokens = <<>> /\ figmaTokens = <<>> /\ archErrors = <<>>
    /\ diff = EmptyDiff /\ currentRegistry = EmptyRegistry
    /\ removableFromTheme = <<>> /\ rc = NoFrame
    /\ approvedAdded = <<>> /\ approvedUpdated = <<>> /\ approvedRemoved = <<>>
    /\ skippedCount = 0 /\ quit = FALSE /\ exitCode = NoExit /\ trace = <<>>
    /\ out = NoOutput

InitValidator == RunIdle /\ val = ValStart /\ norm = Idle /\ fn = Idle

NextValidator ==
    ValNoCss \/ ValReadFails \/ ValRead \/ ValParse \/ ValCheck \/ ValCompile \/ ValExit

SpecValidator == InitValidator /\ [][NextValidator]_vars

-----------------------------------------------------------------------------
(* The external token normaliser on its own: parseFigmaExport, then        *)
(* validateFigmaTiers (both copies), then the cycle detector               *)

NormNames ==
    { Dot("primitive", "a"), Dot("semantic", "a"), Dot("component", "a"),
      Dot("base", "a"), <<"primitive">>, <<"primitive", "-", "a">> }

NormValues ==
    { <<"#1">>, RefTo(Dot("primitive", "a")), RefTo(Dot("semantic", "a")),
      RefTo(Dot("component", "a")), RefTo(Dot("base", "a")),
      RefTo(<<"primitive", "-", "a">>), RefTo(<<"primitive">>) }

NormEntries == {Entry(n, v) : n \in NormNames, v \in NormValues}

NormFiles(maxTokens) ==
    {[kind |-> "unparsable", tokens |-> <<>>]}
    \cup {[kind |-> "list", tokens |-> b] :
             b \in UNION {[1..n -> NormEntries] : n \in 0..maxTokens}}

NormStart ==
    [pc |-> "start", tokens |-> <<>>, errors |-> <<>>, applyErrors |-> <<>>,
     cycles |-> <<>>]

NormParse ==
    /\ norm.pc = "start"
    /\ \E json \in NormFiles(MaxTokens) :
          LET parsed == parseFigmaExport(json)
          IN norm' = IF parsed.ok
                     THEN [norm EXCEPT !.pc = "parsed", !.tokens = parsed.tokens]
                     ELSE [norm EXCEPT !.pc = "rejected"]
    /\ UNCHANGED <<runVars, val, fn>>

NormValidate ==
    /\ norm.pc = "parsed"
    /\ norm' = [norm EXCEPT !.pc = "validated",
                            !.errors = validateFigmaTiers(norm.tokens),
                            !.applyErrors = applyValidateFigmaTiers(norm.tokens)]
    /\ UNCHANGED <<runVars, val, fn>>

NormCycles ==
    /\ norm.pc = "validated"
    /\ norm' = [norm EXCEPT !.pc = "done",
                            !.cycles = figmaFindCycles(buildFigmaGraph(norm.tokens))]
    /\ UNCHANGED <<runVars, val, fn>>

InitNormalize == RunIdle /\ val = Idle /\ norm = NormStart /\ fn = Idle

NextNormalize == NormParse \/ NormValidate \/ NormCycles

SpecNormalize == InitNormalize /\ [][NextNormalize]_vars

-----------------------------------------------------------------------------
(* Reading a run off its trace *)

Names(list) == [i \in 1..Len(list) |-> list[i].name]

Prompted(kind, name) == \E i \in 1..Len(trace) : trace[i] = Ev("prompt", kind, name)

\* the prompt for the entry was answered with decision a
AnsweredWith(kind, name, a) ==
    \E i \in 1..(Len(trace) - 1) :
        trace[i] = Ev("prompt", kind, name) /\ trace[i + 1] = Ev("answer", a, <<>>)

Happened(ev) == \E i \in 1..Len(trace) : trace[i].ev = ev

\* entry j of category K was accepted by the operator: accept-this at its own
\* prompt, or accept-all at its prompt or at an earlier one of the category
Accepted(K, j) ==
    \/ AnsweredWith(Cats[K], ReviewLists[K][j].name, "yes")
    \/ \E h \in 1..j : AnsweredWith(Cats[K], ReviewLists[K][h].name, "all")

ApprovedOf(K) ==
    IF K = 1 THEN approvedAdded ELSE IF K = 2 THEN approvedUpdated ELSE approvedRemoved

\* the registry the run started from, as far as it can be read
Persisted == IF disk0.registry.state = "ok" THEN disk0.registry ELSE EmptyRegistry

\* the registry a later run would load
Final == IF disk.registry.state = "ok" THEN disk.registry ELSE EmptyRegistry

UpsertedNames == SeqToSet(Names(approvedAdded)) \cup SeqToSet(Names(approvedUpdated))
DeletedNames  == SeqToSet(Names(approvedRemoved))

ExternalValue(name) ==
    LET all == approvedAdded \o approvedUpdated
    IN all[CHOOSE i \in 1..Len(all) : all[i].name = name].figmaValue

\* the three files hold the persisted registry changed by exactly the approved
\* entries, with one changelog entry written for each of them
WrittenExactlyApproved ==
    /\ disk.registry.state = "ok"
    /\ LET w == disk.registry
       IN /\ Len(w.changelog) >= TotalApproved
          /\ [i \in 1..TotalApproved |-> w.changelog[Len(w.changelog) - TotalApproved + i].token]
                = Names(approvedAdded) \o Names(approvedUpdated) \o Names(approvedRemoved)
          /\ DOMAIN w.tokens = ((DOMAIN Persisted.tokens) \cup UpsertedNames) \ DeletedNames
          /\ \A n \in DOMAIN w.tokens :
                w.tokens[n] = IF n \in UpsertedNames THEN ExternalValue(n)
                              ELSE Persisted.tokens[n]
          /\ disk.css = [state |-> "ok", tokens |-> w.tokens]
          /\ disk.scss = [state |-> "ok", tokens |-> w.tokens]
    /\ SelectSeq(trace, LAMBDA e : e.ev = "write")
          = <<Ev("write", "css", <<>>), Ev("write", "scss", <<>>),
              Ev("write", "registry", <<>>)>>

-----------------------------------------------------------------------------
(* C1 *)

\* a token of the batch with one of the faults the gate is there to stop:
\* first segment "base", a reference to a base-tier or unrecognised name, a
\* reference against the table primitive->{}, semantic->{primitive},
\* component->{semantic}, or a reference to itself
C1_Faulty(t) ==
    LET n == t.figmaName
        v == t.figmaValue
        isRef == Len(v) = 5 /\ v[1] = "{" /\ v[3] = "." /\ v[5] = "}"
    IN /\ Len(n) = 3 /\ n[2] = "."
       /\ \/ n[1] = "base"
          \/ isRef /\ v[2] \notin {"primitive", "semantic", "component"}
          \/ isRef /\ <<n[1], v[2]>> \notin {<<"semantic", "primitive">>,
                                            <<"component", "semantic">>}
          \/ isRef /\ SubSeq(v, 2, 4) = n

\* C1: in the dry run and in the apply run alike, a batch on which validation
\* reports an error (and every batch holding a token with a listed fault is
\* such a batch) ends the run at the gate with exit code 1: diffTokens was not
\* called, no prompt was shown, nothing was approved, no file was written.
C1_InvalidBatchBlocked ==
    /\ archErrors # <<>> =>
          /\ pc = "done" /\ exitCode = 1
          /\ trace = <<>>
          /\ diff = EmptyDiff
          /\ TotalApproved = 0
          /\ disk = disk0
    /\ (pc \notin {"start", "parse", "gate"}
          /\ \E i \in 1..Len(figmaTokens) : C1_Faulty(figmaTokens[i]))
       => archErrors # <<>>

C1_Witness ==
    /\ entry = "apply" /\ pc = "done" /\ exitCode = 1
    /\ Len(figmaTokens) = 3
    /\ \E i \in 1..Len(archErrors) :
          archErrors[i].kind = "unknown-tier" /\ archErrors[i].token = Dot("base", "a")
    /\ \E i \in 1..Len(figmaTokens) : figmaTokens[i].tier = "component"

-----------------------------------------------------------------------------
(* C2 *)

\* C2: when the operator answers abort at entry i of category K, then from
\* that answer on: in K exactly the entries accepted before i are approved, in
\* the categories before K exactly the accepted entries are approved, no entry
\* after i and no entry of a later category is prompted or approved, no
\* further prompt is pending, and once the run has ended with at least one
\* approval it ended with code 0 and the files hold exactly the approved
\* entries merged into the persisted registry.
C2_AbortKeepsAccepted ==
    \A K \in 1..3 : \A i \in 1..Len(ReviewLists[K]) :
        AnsweredWith(Cats[K], ReviewLists[K][i].name, "quit") =>
            /\ pc \in {"reviewed", "merge", "write-css", "write-scss", "write-registry",
                      "done"}
            /\ \A j \in 1..Len(ReviewLists[K]) :
                  (ReviewLists[K][j] \in SeqToSet(ApprovedOf(K))) <=> (j < i /\ Accepted(K, j))
            /\ \A K0 \in 1..(K - 1) : \A j \in 1..Len(ReviewLists[K0]) :
                  (ReviewLists[K0][j] \in SeqToSet(ApprovedOf(K0))) <=> Accepted(K0, j)
            /\ \A j \in (i + 1)..Len(ReviewLists[K]) :
                  ~Prompted(Cats[K], ReviewLists[K][j].name)
            /\ \A K2 \in (K + 1)..3 :
                  /\ ApprovedOf(K2) = <<>>
                  /\ \A j \in 1..Len(ReviewLists[K2]) :
                        ~Prompted(Cats[K2], ReviewLists[K2][j].name)
            /\ (pc = "done" /\ TotalApproved > 0 /\ ~Happened("error")) =>
                  exitCode = 0 /\ WrittenExactlyApproved
            /\ (pc = "done" /\ TotalApproved = 0) => disk = disk0

\* Scenario 4: three NEW entries, the first accepted, abort at the second
C2_Witness ==
    /\ pc = "done" /\ exitCode = 0
    /\ Len(diff.added) = 3
    /\ AnsweredWith("NEW", diff.added[1].name, "yes")
    /\ AnsweredWith("NEW", diff.added[2].name, "quit")
    /\ ~Prompted("NEW", diff.added[3].name)
    /\ Len(disk.registry.changelog) = 1
    /\ disk.registry.changelog[1].token = diff.added[1].name

-----------------------------------------------------------------------------
(* C3 *)

Interrupted == exitCode = 130

\* what an explicit abort at the interrupted prompt would have left on disk
C3_AbortEffect ==
    IF AbortTotal = 0 THEN disk0
    ELSE writeOutputFiles(mergeRegistryChanges(currentRegistry, AbortChanges))

\* C3 as claimed: after an interrupt at a pending prompt the registry and the
\* output files are what an explicit abort at that prompt would have left.
C3_InterruptEqualsAbort == Interrupted => disk = C3_AbortEffect

\* C3 amended: an interrupt at a pending prompt ends the run with code 130 and
\* with nothing merged or written, whatever was accepted before; this is the
\* effect of an explicit abort at that prompt only when nothing was accepted.
C3_InterruptWritesNothing ==
    Interrupted =>
        /\ pc = "done" /\ rc.at = "prompt"
        /\ trace[Len(trace)].ev = "sigint"
        /\ ~Happened("write")
        /\ disk = disk0
        /\ (AbortTotal = 0 => disk = C3_AbortEffect)

C3_Witness ==
    /\ Interrupted
    /\ trace[Len(trace)] = Ev("sigint", "readline", <<>>)
    /\ rc.kind = "MODIFIED" /\ Len(approvedAdded) = 1
    /\ disk = disk0 /\ disk # C3_AbortEffect

-----------------------------------------------------------------------------
(* C4 *)

IsPrefix(s, t) == Len(s) <= Len(t) /\ SubSeq(t, 1, Len(s)) = s

\* C4: the changelog written back by a run has the changelog persisted before
\* the run as a prefix, followed by one entry per entry approved in the run.
C4_ChangelogAppendOnly ==
    (pc = "done" /\ exitCode = 0 /\ Happened("write") /\ disk0.registry.state = "ok") =>
        /\ IsPrefix(disk0.registry.changelog, disk.registry.changelog)
        /\ Len(disk.registry.changelog) = Len(disk0.registry.changelog) + TotalApproved

-----------------------------------------------------------------------------
(* C6 *)

\* the changelog entries of this run
RunLog ==
    LET log == disk.registry.changelog
    IN SubSeq(log, Len(log) - TotalApproved + 1, Len(log))

C6_Upsert(item, entry_, action, fallback) ==
    /\ item.name \in DOMAIN disk.registry.tokens
    /\ disk.registry.tokens[item.name] = item.figmaValue
    /\ entry_.action = action /\ entry_.token = item.name
    /\ entry_.value = item.figmaValue
    /\ entry_.prev = IF item.name \in DOMAIN currentRegistry.tokens
                     THEN currentRegistry.tokens[item.name]
                     ELSE fallback

C6_Delete(item, entry_) ==
    /\ item.name \notin DOMAIN disk.registry.tokens
    /\ item.name \in SeqToSet(disk.registry.removed)
    /\ entry_.action = "remove" /\ entry_.token = item.name
    /\ item.name \in DOMAIN currentRegistry.tokens
    /\ entry_.prev = currentRegistry.tokens[item.name]

C6_Merged ==
    /\ \A i \in 1..Len(approvedAdded) :
          C6_Upsert(approvedAdded[i], RunLog[i], "add", Null)
    /\ \A i \in 1..Len(approvedUpdated) :
          C6_Upsert(approvedUpdated[i], RunLog[Len(approvedAdded) + i], "update",
                    approvedUpdated[i].cssValue)
    /\ \A i \in 1..Len(approvedRemoved) :
          C6_Delete(approvedRemoved[i],
                    RunLog[Len(approvedAdded) + Len(approvedUpdated) + i])

\* C6: after the merge every approved NEW or MODIFIED entry has its external
\* value in the override map and a changelog entry whose previous value is the
\* override held before (for MODIFIED with no override, the stylesheet value);
\* every approved REMOVED entry is out of the map, in the removed set, and its
\* changelog entry carries the deleted override.
C6_MergeRecordsPrevious == (pc = "done" /\ exitCode = 0 /\ Happened("write")) => C6_Merged

\* the same, for registries that hold no empty override
C6_MergeRecordsNonEmptyPrevious ==
    (pc = "done" /\ exitCode = 0 /\ Happened("write")
        /\ \A n \in DOMAIN currentRegistry.tokens : currentRegistry.tokens[n] # <<>>)
    => C6_Merged

-----------------------------------------------------------------------------
(* C7 *)

\* C7: in a --yes run every NEW and every MODIFIED entry of the diff is
\* approved, no REMOVED entry is, and no prompt is shown; the registry written
\* by the run has every name of the persisted override map in its override
\* map, and no name in its removed set that the persisted removed set lacked.
C7_YesNeverRemoves ==
    (yes /\ pc \notin {"start", "parse", "gate", "diff", "load"} /\ Happened("diff")
         /\ ~NothingToApply(diff)) =>
        /\ approvedAdded = diff.added
        /\ approvedUpdated = diff.modified
        /\ approvedRemoved = <<>>
        /\ ~Happened("prompt")
        /\ (pc = "done" /\ ~Happened("error")) =>
              /\ Happened("write")
              /\ DOMAIN Persisted.tokens \subseteq DOMAIN disk.registry.tokens
              /\ SeqToSet(disk.registry.removed) \subseteq SeqToSet(Persisted.removed)
              /\ \A i \in 1..Len(diff.added) :
                    disk.registry.tokens[diff.added[i].name] = diff.added[i].figmaValue
              /\ \A i \in 1..Len(diff.modified) :
                    disk.registry.tokens[diff.modified[i].name] = diff.modified[i].figmaValue

\* a --yes run with an overridden name among the REMOVED entries
C7_Witness ==
    /\ yes /\ pc = "done" /\ exitCode = 0 /\ Happened("write")
    /\ Len(removableFromTheme) = 1
    /\ removableFromTheme[1].name \in DOMAIN disk.registry.tokens
    /\ Len(diff.added) > 0 /\ Len(diff.modified) > 0

-----------------------------------------------------------------------------
(* C8 *)

\* the REMOVED entries whose name the persisted override map holds
C8_Removable == SelectSeq(diff.removed, LAMBDA r : r.name \in DOMAIN Persisted.tokens)

C8_Lists == <<diff.added, diff.modified, C8_Removable>>

\* an abort, or an accept-all / reject-all of the same category, answered at
\* an entry before entry j of category K
C8_Covered(K, j) ==
    \/ \E K0 \in 1..K : \E h \in 1..Len(C8_Lists[K0]) :
          /\ (K0 < K \/ h < j)
          /\ AnsweredWith(Cats[K0], C8_Lists[K0][h].name, "quit")
    \/ \E h \in 1..(j - 1) :
          \/ AnsweredWith(Cats[K], C8_Lists[K][h].name, "all")
          \/ AnsweredWith(Cats[K], C8_Lists[K][h].name, "skip")

C8_Position(e) ==
    LET K == KindIdx(e.kind)
    IN <<K, CHOOSE j \in 1..Len(C8_Lists[K]) : C8_Lists[K][j].name = e.name>>

C8_InOrder ==
    LET ps == SelectSeq(trace, LAMBDA e : e.ev = "prompt")
    IN \A a \in 1..Len(ps), b \in 1..Len(ps) :
          a < b => \/ C8_Position(ps[a])[1] < C8_Position(ps[b])[1]
                   \/ /\ C8_Position(ps[a])[1] = C8_Position(ps[b])[1]
                      /\ C8_Position(ps[a])[2] < C8_Position(ps[b])[2]

C8_Reviewed ==
    /\ \A K \in 1..3 : \A j \in 1..Len(C8_Lists[K]) :
          Prompted(Cats[K], C8_Lists[K][j].name) \/ C8_Covered(K, j)
    /\ C8_InOrder
    /\ \A i \in 1..Len(diff.removed) :
          diff.removed[i].name \notin DOMAIN Persisted.tokens =>
              /\ ~Prompted("REMOVED", diff.removed[i].name)
              /\ diff.removed[i].name \notin DOMAIN Final.tokens
              /\ diff.removed[i].name \in SeqToSet(Final.removed)
                    => diff.removed[i].name \in SeqToSet(Persisted.removed)

\* C8: an interactive apply run that passed validation and ran to its end
\* prompted for every entry of NEW, MODIFIED and overridden REMOVED, in that
\* order, unless an earlier abort, accept-all or reject-all covers the entry,
\* whatever the diff; other REMOVED entries are not prompted and do not change
\* the registry.
C8_AllCategoriesReviewed ==
    (entry = "apply" /\ ~yes /\ pc = "done" /\ exitCode \in {0, 2} /\ Happened("diff"))
        => C8_Reviewed

\* the same, for the diffs with a NEW or a MODIFIED entry
C8_ReviewedWhenSomethingToApply ==
    (entry = "apply" /\ ~yes /\ pc = "done" /\ exitCode \in {0, 2} /\ Happened("diff")
        /\ ~NothingToApply(diff))
        => C8_Reviewed

-----------------------------------------------------------------------------
(* C5 *)

\* C5: a validator run that compiled its error list exits with 0 if and only
\* if that list is empty, and with 1 if and only if there is a missing
\* reference, a cycle, a tier violation or a direct primitive usage; orphans
\* and unused semantics, the warnings, have no part in it.
C5_ExitReflectsErrors ==
    (val.pc = "done" /\ val.compiled) =>
        /\ val.exitCode \in {0, 1}
        /\ val.exitCode = 0 <=> val.errors = <<>>
        /\ val.exitCode = 1 <=>
              \/ val.missingRefs # <<>>
              \/ val.cycles # <<>>
              \/ val.tierViolations # <<>>
              \/ val.primInRules # <<>>
        /\ Len(val.warnings) = Len(val.orphans) + Len(val.unusedSemantics)

\* a run with an orphan and an unused semantic that exits with 0
C5_Witness ==
    /\ val.pc = "done" /\ val.compiled /\ val.exitCode = 0
    /\ \E i, j \in 1..Len(val.warnings) :
          val.warnings[i].rule = "orphan" /\ val.warnings[j].rule = "unused-semantic"

-----------------------------------------------------------------------------
(* C10 *)

Tiered == {"primitive", "semantic", "component", "base"}

C10_Table ==
    [t \in Tiered |->
        CASE t = "primitive" -> {}
          [] t = "semantic"  -> {"primitive"}
          [] t = "component" -> {"semantic", "base"}
          [] t = "base"      -> {"semantic"}]

\* every (token, referenced name) of the definitions
C10_Pairs ==
    UNION {{<<val.tokenDefs[i].k, dep>> : dep \in SeqToSet(val.tokenDefs[i].v.refs)} :
              i \in 1..Len(val.tokenDefs)}

C10_Reported == {<<v.token, v.dep>> : v \in SeqToSet(val.tierViolations)}

\* C10: the pairs findTierViolations reports are exactly the (token,
\* referenced name) with the token's tier not unknown and the referenced
\* name's tier outside the row of the table for the token's tier; no token of
\* unknown tier is reported, and every reference from a tiered token to a
\* name of unknown tier is.
C10_TierViolationsExact ==
    val.pc \in {"checked", "report", "done"} =>
        /\ C10_Reported =
              {p \in C10_Pairs : /\ getTier(p[1]) \in Tiered
                                 /\ getTier(p[2]) \notin C10_Table[getTier(p[1])]}
        /\ \A v \in SeqToSet(val.tierViolations) :
              v.tokenTier = getTier(v.token) /\ v.depTier = getTier(v.dep)
        /\ \A p \in C10_Pairs :
              /\ getTier(p[1]) = "unknown" => p \notin C10_Reported
              /\ (getTier(p[1]) \in Tiered /\ getTier(p[2]) = "unknown")
                    => p \in C10_Reported

\* a stylesheet with a reference from an unknown-tier token, a component
\* token referencing semantic and base, and a reference to an unknown tier
C10_Witness ==
    /\ val.pc = "checked"
    /\ \E p \in C10_Pairs : getTier(p[1]) = "unknown"
    /\ \E p \in C10_Pairs \ C10_Reported :
          getTier(p[1]) = "component" /\ getTier(p[2]) = "base"
    /\ \E v \in SeqToSet(val.tierViolations) : v.depTier = "unknown"

-----------------------------------------------------------------------------
(* C9 *)

\* the value is a brace reference
C9_IsRef(v) == Len(v) >= 3 /\ v[1] = "{" /\ v[Len(v)] = "}"

\* the tier prefix of the name a brace reference names: its first piece, when
\* a separator follows it
C9_RefTier(v) ==
    IF Len(v) >= 4 /\ v[3] \in {".", "-"}
          /\ v[2] \in {"primitive", "semantic", "component", "base"}
    THEN v[2] ELSE "none"

\* the first dotted segment of the token's name
C9_NameTier(name) ==
    IF name # <<>> /\ (Len(name) = 1 \/ name[2] = ".") THEN name[1] ELSE "none"

C9_Legal(t) ==
    /\ C9_NameTier(t.figmaName) \in {"primitive", "semantic", "component"}
    /\ C9_IsRef(t.figmaValue) =>
          \/ /\ C9_NameTier(t.figmaName) = "semantic"
             /\ C9_RefTier(t.figmaValue) = "primitive"
          \/ /\ C9_NameTier(t.figmaName) = "component"
             /\ C9_RefTier(t.figmaValue) = "semantic"

C9_Offending == SelectSeq(norm.tokens, LAMBDA t : ~C9_Legal(t))

C9_Collected(errors) ==
    /\ errors = <<>> <=> \A i \in 1..Len(norm.tokens) : C9_Legal(norm.tokens[i])
    /\ Len(errors) = Len(C9_Offending)
    /\ \A i \in 1..Len(errors) : errors[i].token = C9_Offending[i].figmaName
    /\ \A i \in 1..Len(C9_Offending) :
          (/\ C9_NameTier(C9_Offending[i].figmaName)
                 \in {"primitive", "semantic", "component"}
           /\ C9_IsRef(C9_Offending[i].figmaValue)
           /\ C9_RefTier(C9_Offending[i].figmaValue) \in {"base", "none"})
          => errors[i].kind \in {"unknown-ref-tier", "invalid-ref-tier"}

\* C9: validateFigmaTiers (either copy) returns no error exactly when every
\* token's first dotted segment is primitive, semantic or component and every
\* brace reference goes semantic->primitive or component->semantic (none from
\* a primitive); a reference to a base name or to a name without a tier prefix
\* is an error; there is one error per offending token, in batch order.
C9_TierErrorsExact ==
    norm.pc \in {"validated", "done"} =>
        C9_Collected(norm.errors) /\ C9_Collected(norm.applyErrors)

\* a batch of two offending tokens: a code-only first segment, and a
\* reference to a code-only name; both errors are returned
C9_Witness ==
    /\ norm.pc = "validated" /\ Len(norm.tokens) = 2
    /\ Len(norm.errors) = 2
    /\ norm.errors[1].kind = "unknown-tier"
    /\ norm.errors[2].kind = "invalid-ref-tier"
    /\ norm.applyErrors = norm.errors

-----------------------------------------------------------------------------
(* the tier rules of both programs applied to one input *)

\* the definition --primitive-a with any of the values, next to raw-valued
\* definitions of other names
TierSheet(value, D) ==
    Sheet(D \cup {1}, [i \in D \cup {1} |-> IF i = 1 THEN value ELSE <<"#1">>], {})

\* a primitive-tier external token with any of the values, after semantic tokens
TierExport(name, value, others) ==
    [kind |-> "list", tokens |-> others \o <<Entry(name, value)>>]

TierStart(css, json) ==
    [pc |-> "input", css |-> css, json |-> json, tokenDefs |-> <<>>,
     tierViolations |-> <<>>, tokens |-> <<>>, errors |-> <<>>, applyErrors |-> <<>>]

\* parseCSS and RULE 3 of the stylesheet validator
TierOfSheet ==
    /\ fn.pc = "input"
    /\ LET tokenDefs == parseCSS(fn.css).tokenDefs
       IN fn' = [fn EXCEPT !.pc = "sheet", !.tokenDefs = tokenDefs,
                           !.tierViolations = findTierViolations(tokenDefs)]
    /\ UNCHANGED <<runVars, val, norm>>

\* parseFigmaExport and validateFigmaTiers of the normalizer, both copies
TierOfExport ==
    /\ fn.pc = "sheet"
    /\ LET parsed == parseFigmaExport(fn.json)
       IN fn' = [fn EXCEPT !.pc = "done", !.tokens = parsed.tokens,
                           !.errors = validateFigmaTiers(parsed.tokens),
                           !.applyErrors = applyValidateFigmaTiers(parsed.tokens)]
    /\ UNCHANGED <<runVars, val, norm>>

InitTiers ==
    /\ RunIdle /\ val = Idle /\ norm = Idle
    /\ \E value \in ValueChoices, D \in SUBSET (2..Len(DefNames)) :
          /\ Cardinality(D) < MaxItems
          /\ \E name \in {Dot("primitive", "a"), <<"primitive">>},
                v \in NormValues, n \in 0..(MaxTokens - 1) :
                \E others \in [1..n -> {Entry(Dot("semantic", "a"), w) : w \in NormValues}] :
                   fn = TierStart(TierSheet(value, D), TierExport(name, v, others))

NextTiers == TierOfSheet \/ TierOfExport

SpecTiers == InitTiers /\ [][NextTiers]_vars

-----------------------------------------------------------------------------
(* C11 *)

C11_IsPrimitiveName(name) == startsWith(name, <<"-", "-", "primitive", "-">>)

\* the violations reported for definition d with dependency dep
C11_Reported(d, dep) ==
    {j \in 1..Len(fn.tierViolations) :
        fn.tierViolations[j].token = d.k /\ fn.tierViolations[j].dep = dep}

\* C11: a primitive-tier definition that holds references yields, in the
\* stylesheet validator, one tier-violation error per reference (a reference
\* written twice is reported twice), whatever the reference points to; a
\* primitive-tier external token whose value is a reference yields at least
\* one blocking error naming it, in both copies of the normalizer.
C11_PrimitiveRefsAlwaysError ==
    /\ fn.pc \in {"sheet", "done"} =>
          \A i \in 1..Len(fn.tokenDefs) :
             LET d == fn.tokenDefs[i]
             IN C11_IsPrimitiveName(d.k) =>
                  /\ Cardinality({j \in 1..Len(fn.tierViolations) :
                                     fn.tierViolations[j].token = d.k})
                        = Len(d.v.refs)
                  /\ \A r \in 1..Len(d.v.refs) :
                        Cardinality(C11_Reported(d, d.v.refs[r]))
                           = Cardinality({q \in 1..Len(d.v.refs) :
                                             d.v.refs[q] = d.v.refs[r]})
    /\ fn.pc = "done" =>
          \A i \in 1..Len(fn.tokens) :
             LET t == fn.tokens[i]
             IN (FirstSegment(t.figmaName) = <<"primitive">> /\ C9_IsRef(t.figmaValue)) =>
                  /\ \E j \in 1..Len(fn.errors) : fn.errors[j].token = t.figmaName
                  /\ \E j \in 1..Len(fn.applyErrors) :
                        fn.applyErrors[j].token = t.figmaName

\* --primitive-a referencing itself, and the external token primitive.a
\* referencing a semantic token
C11_Witness ==
    /\ fn.pc = "done"
    /\ \E i \in 1..Len(fn.tokenDefs) :
          /\ C11_IsPrimitiveName(fn.tokenDefs[i].k)
          /\ fn.tokenDefs[i].v.refs = <<fn.tokenDefs[i].k>>
    /\ Len(fn.tierViolations) = 1
    /\ \E i \in 1..Len(fn.tokens) :
          /\ fn.tokens[i].figmaName = Dot("primitive", "a")
          /\ fn.tokens[i].figmaValue = RefTo(Dot("semantic", "a"))
    /\ Len(fn.errors) = 1 /\ fn.errors[1].kind = "tier-violation"

-----------------------------------------------------------------------------
(* C12 *)

C12_Defined == {val.tokenDefs[i].k : i \in 1..Len(val.tokenDefs)}

\* the errors with the given consumer and missing name
C12_Errors(consumer, missing) ==
    {j \in 1..Len(val.missingRefs) :
        val.missingRefs[j].consumer = consumer /\ val.missingRefs[j].missing = missing}

\* the positions of definition d's references that name x
C12_Occurrences(d, x) == {q \in 1..Len(d.v.refs) : d.v.refs[q] = x}

C12_AllNames ==
    C12_Defined \cup SeqToSet(val.ruleUsages)
       \cup UNION {SeqToSet(val.tokenDefs[i].v.refs) : i \in 1..Len(val.tokenDefs)}
       \cup {val.missingRefs[j].missing : j \in 1..Len(val.missingRefs)}

\* the (definition, position) pairs of references to undefined names
C12_UndefinedRefs ==
    UNION {{<<i, q>> : q \in {r \in 1..Len(val.tokenDefs[i].v.refs) :
                                 val.tokenDefs[i].v.refs[r] \notin C12_Defined}} :
              i \in 1..Len(val.tokenDefs)}

\* C12: findMissingRefs returns one error per reference of a definition whose
\* target is not defined and one error per name used in a non-root rule that
\* is not defined, and nothing else; when the only undefined reference is the
\* single reference of one semantic token to an undefined primitive name, the
\* result is exactly one error, naming that primitive.
C12_MissingRefsExact ==
    val.pc \in {"checked", "report", "done"} =>
       /\ \A i \in 1..Len(val.tokenDefs), x \in C12_AllNames :
             LET d == val.tokenDefs[i]
             IN Cardinality(C12_Errors(d.k, x))
                   = IF x \in C12_Defined THEN 0
                     ELSE Cardinality(C12_Occurrences(d, x))
       /\ \A x \in C12_AllNames :
             Cardinality(C12_Errors(<<"(css rule)">>, x))
                = IF x \in SeqToSet(val.ruleUsages) \ C12_Defined THEN 1 ELSE 0
       /\ \A j \in 1..Len(val.missingRefs) :
             val.missingRefs[j].consumer \in C12_Defined \cup {<<"(css rule)">>}
       /\ \A i \in 1..Len(val.tokenDefs) :
             LET d == val.tokenDefs[i]
             IN (/\ startsWith(d.k, <<"-", "-", "semantic", "-">>)
                 /\ Len(d.v.refs) = 1
                 /\ startsWith(d.v.refs[1], <<"-", "-", "primitive", "-">>)
                 /\ C12_UndefinedRefs = {<<i, 1>>}
                 /\ SeqToSet(val.ruleUsages) \subseteq C12_Defined)
                => /\ Len(val.missingRefs) = 1
                   /\ val.missingRefs[1].missing = d.v.refs[1]
                   /\ val.missingRefs[1].consumer = d.k

\* Scenario 1 next to a defined component token used by a rule
C12_Witness ==
    /\ val.pc = "checked"
    /\ Len(val.tokenDefs) = 2
    /\ \E i \in 1..2 :
          /\ val.tokenDefs[i].k = CssName("semantic", "a")
          /\ val.tokenDefs[i].v.refs = <<CssName("primitive", "a")>>
    /\ CssName("primitive", "a") \notin C12_Defined
    /\ val.ruleUsages = <<CssName("component", "a")>>
    /\ CssName("component", "a") \in C12_Defined
    /\ Len(val.missingRefs) = 1

-----------------------------------------------------------------------------
(* the cycle detectors applied to one dependency graph *)

MaxNodes == 3
MaxEdges == 4

NodeLetters == <<"a", "b", "c", "d">>

\* node 0 is a name that no definition and no token carries
NodeLetter(i) == IF i = 0 THEN "u" ELSE NodeLetters[i]

\* the references of node i: the targets of the edges leaving i, in order
RefsOf(i, srcs, dsts) ==
    LET at == SortedSeq({q \in 1..Len(srcs) : srcs[q] = i})
    IN [j \in 1..Len(at) |-> dsts[at[j]]]

\* --semantic-<i>: var(--semantic-<t1>) var(--semantic-<t2>) ...;
GraphValue(targets) ==
    IF targets = <<>> THEN <<"#1">>
    ELSE Concat([j \in 1..Len(targets) |->
                    (IF j = 1 THEN <<>> ELSE <<" ">>)
                       \o VarOf(CssName("semantic", NodeLetter(targets[j])))])

GraphSheet(n, srcs, dsts) ==
    << <<"@layer", " ", "tokens", " ", "{">>, <<":root", " ", "{">> >>
    \o [i \in 1..n |-> DefLine(CssName("semantic", NodeLetters[i]),
                               GraphValue(RefsOf(i, srcs, dsts)))]
    \o << <<"}">>, <<"}">> >>

\* the same graph as an export, when no node holds two references
GraphExport(n, srcs, dsts) ==
    [kind |-> "list",
     tokens |-> [i \in 1..n |->
                   LET targets == RefsOf(i, srcs, dsts)
                   IN Entry(Dot("semantic", NodeLetters[i]),
                            IF targets = <<>> THEN <<"#1">>
                            ELSE RefTo(Dot("semantic", NodeLetter(targets[1]))))]]

Functional(n, srcs) == \A i \in 1..n : Cardinality({q \in 1..Len(srcs) : srcs[q] = i}) <= 1

NoGraph == <<>>

GraphStart(css, json) ==
    [pc |-> "input", css |-> css, json |-> json, graph |-> NoGraph, cycles |-> <<>>,
     figmaGraph |-> NoGraph, figmaCycles |-> <<>>, applyCycles |-> <<>>]

\* validator: parseCSS, buildGraph, RULE 2
CyclesOfSheet ==
    /\ fn.pc = "input"
    /\ LET graph == buildGraph(parseCSS(fn.css).tokenDefs)
       IN fn' = [fn EXCEPT !.pc = "sheet", !.graph = graph, !.cycles = findCycles(graph)]
    /\ UNCHANGED <<runVars, val, norm>>

\* normalizer: parseFigmaExport, buildFigmaGraph, findCycles (both copies)
CyclesOfExport ==
    /\ fn.pc = "sheet" /\ fn.json.kind = "list"
    /\ LET graph == buildFigmaGraph(parseFigmaExport(fn.json).tokens)
       IN fn' = [fn EXCEPT !.pc = "done", !.figmaGraph = graph,
                           !.figmaCycles = figmaFindCycles(graph),
                           !.applyCycles = applyFindCycles(graph)]
    /\ UNCHANGED <<runVars, val, norm>>

InitGraph ==
    /\ RunIdle /\ val = Idle /\ norm = Idle
    /\ \E n \in 1..MaxNodes, e \in 0..MaxEdges :
          \E srcs \in [1..e -> 1..n] :
             /\ \A q \in 1..(e - 1) : srcs[q] <= srcs[q + 1]
             /\ \E dsts \in [1..e -> 0..n] :
                   fn = GraphStart(GraphSheet(n, srcs, dsts),
                                   IF Functional(n, srcs)
                                   THEN GraphExport(n, srcs, dsts)
                                   ELSE [kind |-> "none", tokens |-> <<>>])

NextGraph == CyclesOfSheet \/ CyclesOfExport

SpecGraph == InitGraph /\ [][NextGraph]_vars

-----------------------------------------------------------------------------
(* C13 *)

Edge(g, x, y) == MapHas(g, x) /\ MapHas(g, y) /\ y \in SeqToSet(MapGet(g, x))

\* the directed cycles among the nodes of g, each as the list of its nodes
DirectedCycles(g) ==
    LET keys == SeqToSet(MapKeys(g))
    IN {p \in UNION {[1..k -> keys] : k \in 1..Len(g)} :
          /\ \A i, j \in 1..Len(p) : i # j => p[i] # p[j]
          /\ \A i \in 1..(Len(p) - 1) : Edge(g, p[i], p[i + 1])
          /\ Edge(g, p[Len(p)], p[1])}

\* list is cycle p started at one of its nodes, with that node repeated at the end
IsRotationOf(list, p) ==
    /\ Len(list) = Len(p) + 1
    /\ \E r \in 0..(Len(p) - 1) :
          \A i \in 1..Len(list) : list[i] = p[((i - 1 + r) % Len(p)) + 1]

RECURSIVE ReachableFrom(_, _)
ReachableFrom(g, S) ==
    LET more == S \cup {y \in SeqToSet(MapKeys(g)) : \E x \in S : Edge(g, x, y)}
    IN IF more = S THEN S ELSE ReachableFrom(g, more)

\* x and y lie on a common closed walk
SameComponent(g, x, y) == y \in ReachableFrom(g, {x}) /\ x \in ReachableFrom(g, {y})

AllCyclesListed(g, cycles) ==
    \A p \in DirectedCycles(g) : \E j \in 1..Len(cycles) : IsRotationOf(cycles[j], p)

\* C13 as stated: every directed cycle among defined tokens appears, up to
\* rotation, in the result of findCycles (validator and normalizer).
C13_AllCyclesListed ==
    /\ fn.pc \in {"sheet", "done"} => AllCyclesListed(fn.graph, fn.cycles)
    /\ fn.pc = "done" => /\ AllCyclesListed(fn.figmaGraph, fn.figmaCycles)
                         /\ AllCyclesListed(fn.figmaGraph, fn.applyCycles)

EveryComponentListed(g, cycles) ==
    \A p \in DirectedCycles(g) :
       \E j \in 1..Len(cycles) :
          \A i \in 1..Len(cycles[j]) : SameComponent(g, p[1], cycles[j][i])

AtMostOneRef(g) == \A i \in 1..Len(g) : Len(g[i].v) <= 1

\* what the search does guarantee: every directed cycle among defined tokens
\* shares its strongly connected group with a returned list; when no
\* definition holds more than one reference, as in every external batch,
\* every directed cycle appears up to rotation in the result.
EveryCyclicGroupListed ==
    /\ fn.pc \in {"sheet", "done"} =>
          /\ EveryComponentListed(fn.graph, fn.cycles)
          /\ AtMostOneRef(fn.graph) => AllCyclesListed(fn.graph, fn.cycles)
    /\ fn.pc = "done" =>
          /\ AtMostOneRef(fn.figmaGraph)
          /\ AllCyclesListed(fn.figmaGraph, fn.figmaCycles)
          /\ AllCyclesListed(fn.figmaGraph, fn.applyCycles)

-----------------------------------------------------------------------------
(* C14 *)

\* the only directed cycle of g is x -> y -> x
OnlyCycleIs(g, x, y) == x # y /\ DirectedCycles(g) = {<<x, y>>, <<y, x>>}

OneCycleWithBoth(g, cycles) ==
    \A x, y \in SeqToSet(MapKeys(g)) :
       OnlyCycleIs(g, x, y) =>
          /\ Len(cycles) = 1
          /\ {x, y} \subseteq SeqToSet(cycles[1])

\* C14: for a graph whose only cycle is A -> B -> A, findCycles returns
\* exactly one cycle, containing both A and B, wherever A and B stand in the
\* insertion order and whether or not the search starts at another node that
\* reaches them.
C14_OneCycleForTwoCycle ==
    /\ fn.pc \in {"sheet", "done"} => OneCycleWithBoth(fn.graph, fn.cycles)
    /\ fn.pc = "done" => /\ OneCycleWithBoth(fn.figmaGraph, fn.figmaCycles)
                         /\ OneCycleWithBoth(fn.figmaGraph, fn.applyCycles)

-----------------------------------------------------------------------------
(* C16 *)

RealCycle(g, list) ==
    /\ Len(list) >= 2
    /\ list[1] = list[Len(list)]
    /\ \A i \in 1..(Len(list) - 1) : Edge(g, list[i], list[i + 1])
    /\ \A i, j \in 1..Len(list) : (i < j /\ list[i] = list[j]) => (i = 1 /\ j = Len(list))

AllRealCycles(g, cycles) == \A j \in 1..Len(cycles) : RealCycle(g, cycles[j])

\* C16: every list returned by findCycles (validator and both normalizer
\* copies) is a cycle of the graph written as a path with the closing name
\* repeated: first and last elements equal, every consecutive pair an edge
\* between nodes of the graph, no other name occurring twice.
C16_ListsAreCycles ==
    /\ fn.pc \in {"sheet", "done"} => AllRealCycles(fn.graph, fn.cycles)
    /\ fn.pc = "done" => /\ AllRealCycles(fn.figmaGraph, fn.figmaCycles)
                         /\ AllRealCycles(fn.figmaGraph, fn.applyCycles)

\* a self-reference and a two-node cycle entered from the path, found by the
\* validator and by the normalizer
C16_Witness ==
    /\ fn.pc = "done"
    /\ Len(fn.cycles) = 2
    /\ {Len(fn.cycles[1]), Len(fn.cycles[2])} = {2, 3}
    /\ fn.figmaCycles = fn.cycles
    /\ fn.applyCycles = fn.cycles

-----------------------------------------------------------------------------
(* C15 *)

\* each defined name with the names its definition references
C15_Graph == [i \in 1..Len(val.tokenDefs) |-> KV(val.tokenDefs[i].k, val.tokenDefs[i].v.refs)]

C15_Acyclic == DirectedCycles(C15_Graph) = {}

\* every reference of a definition of known tier goes to a tier its row allows
C15_TierRespecting ==
    \A p \in C10_Pairs :
       getTier(p[1]) \in Tiered => getTier(p[2]) \in C10_Table[getTier(p[1])]

\* C15: findCycles returns the empty list exactly when the graph restricted
\* to defined names has no directed cycle, a self-reference being a cycle; an
\* acyclic tier-respecting definition set gets an empty cycle list and an
\* empty tier-violation list.
C15_EmptyIffAcyclic ==
    val.pc \in {"checked", "report", "done"} =>
       /\ (val.cycles = <<>>) <=> C15_Acyclic
       /\ (C15_Acyclic /\ C15_TierRespecting) =>
             (val.cycles = <<>> /\ val.tierViolations = <<>>)

\* component -> semantic -> primitive: references, no cycle, no violation
C15_Witness ==
    /\ val.pc = "checked"
    /\ Len(val.tokenDefs) = 3
    /\ Cardinality(C10_Pairs) = 2
    /\ C15_Acyclic /\ C15_TierRespecting
    /\ val.cycles = <<>> /\ val.tierViolations = <<>>

-----------------------------------------------------------------------------
(* diffTokens applied to one local token set and one external batch *)

\* local names: three tiers the external source manages, a code-only tier and
\* a name without tier prefix
DiffLocalNames ==
    << CssName("primitive", "a"), CssName("semantic", "a"), CssName("base", "a"),
       <<"-", "-", "primitive">> >>

DiffLocalValues == {<<"#1">>, <<"#2">>}

\* what parseCSSTokens returns for a stylesheet defining the names of L
DiffLocal(L, f) ==
    LET idx == SortedSeq(L) IN [i \in 1..Len(idx) |-> KV(DiffLocalNames[idx[i]], f[idx[i]])]

DiffExternalEntries ==
    {Entry(n, v) :
        n \in {Dot("primitive", "a"), Dot("semantic", "a"), Dot("component", "a"),
               <<"primitive">>},
        v \in {<<"#1">>, <<"#2">>, RefTo(Dot("primitive", "a"))}}

\* the local set as the second argument: name and value text of every token
AsExternal(cssTokens_) ==
    [i \in 1..Len(cssTokens_) |-> [cssName |-> cssTokens_[i].k, cssValue |-> cssTokens_[i].v]]

DiffStart(cssTokens_, figmaTokens_) ==
    [pc |-> "input", cssTokens |-> cssTokens_, figmaTokens |-> figmaTokens_,
     first |-> EmptyDiff, second |-> EmptyDiff, apply |-> EmptyDiff, self |-> EmptyDiff]

\* the dry run's diffTokens
DiffFirst ==
    /\ fn.pc = "input"
    /\ fn' = [fn EXCEPT !.pc = "first", !.first = diffTokens(fn.cssTokens, fn.figmaTokens)]
    /\ UNCHANGED <<runVars, val, norm>>

\* a second call on the same arguments, and the copy in the apply script
DiffSecond ==
    /\ fn.pc = "first"
    /\ fn' = [fn EXCEPT !.pc = "second",
                        !.second = diffTokens(fn.cssTokens, fn.figmaTokens),
                        !.apply = applyDiffTokens(fn.cssTokens, fn.figmaTokens)]
    /\ UNCHANGED <<runVars, val, norm>>

\* the local set diffed against itself
DiffSelf ==
    /\ fn.pc = "second"
    /\ fn' = [fn EXCEPT !.pc = "done",
                        !.self = diffTokens(fn.cssTokens, AsExternal(fn.cssTokens))]
    /\ UNCHANGED <<runVars, val, norm>>

InitDiff ==
    /\ RunIdle /\ val = Idle /\ norm = Idle
    /\ \E L \in SUBSET (1..Len(DiffLocalNames)) :
          /\ Cardinality(L) <= MaxTokens
          /\ \E f \in [L -> DiffLocalValues], n \in 0..MaxTokens :
                \E b \in [1..n -> DiffExternalEntries] :
                   LET parsed == parseFigmaExport([kind |-> "list", tokens |-> b])
                   IN /\ parsed.ok
                      /\ ~GateBlocked(ArchErrors("dry", parsed.tokens))
                      /\ fn = DiffStart(DiffLocal(L, f), parsed.tokens)

NextDiff == DiffFirst \/ DiffSecond \/ DiffSelf

SpecDiff == InitDiff /\ [][NextDiff]_vars

-----------------------------------------------------------------------------
(* C17 *)

\* the internal names of the external batch, and the local names
C17_External == {fn.figmaTokens[i].cssName : i \in 1..Len(fn.figmaTokens)}
C17_Local    == {fn.cssTokens[i].k : i \in 1..Len(fn.cssTokens)}

\* the local names of tier primitive, semantic or component
C17_Managed ==
    {k \in C17_Local : \E t \in {"primitive", "semantic", "component"} :
                          startsWith(k, <<"-", "-", t, "-">>)}

\* the value text the batch gives a name (its last entry for the name)
C17_ExternalValue(n) ==
    LET last == CHOOSE i \in 1..Len(fn.figmaTokens) :
                   /\ fn.figmaTokens[i].cssName = n
                   /\ \A j \in (i + 1)..Len(fn.figmaTokens) : fn.figmaTokens[j].cssName # n
    IN fn.figmaTokens[last].cssValue

C17_LocalValue(k) == (CHOOSE e \in SeqToSet(fn.cssTokens) : e.k = k).v

C17_Names(list) == {list[i].name : i \in 1..Len(list)}

C17_NoRepetition(list) == \A i, j \in 1..Len(list) : list[i].name = list[j].name => i = j

\* the parts of the statement that do not concern code-only local names
C17_Classified(d) ==
    /\ C17_Names(d.added) = C17_External \ C17_Managed
    /\ C17_Names(d.modified) =
          {n \in C17_External \cap C17_Managed : C17_LocalValue(n) # C17_ExternalValue(n)}
    /\ C17_Names(d.unchanged) =
          {n \in C17_External \cap C17_Managed : C17_LocalValue(n) = C17_ExternalValue(n)}
    /\ C17_Names(d.removed) = C17_Managed \ C17_External
    /\ \A l \in {d.added, d.modified, d.unchanged, d.removed} : C17_NoRepetition(l)
    /\ \A l1, l2 \in {d.added, d.modified, d.unchanged, d.removed} :
          l1 # l2 => C17_Names(l1) \cap C17_Names(l2) = {}

C17_AllCategories(d) ==
    C17_Names(d.added) \cup C17_Names(d.modified) \cup C17_Names(d.unchanged)
       \cup C17_Names(d.removed)

\* C17 as stated: the names are partitioned as described and no local name of
\* base or unknown tier appears in any category.
C17_PartitionAndCodeOnlyAbsent ==
    fn.pc \in {"second", "done"} =>
       \A d \in {fn.first, fn.apply} :
          /\ C17_Classified(d)
          /\ (C17_Local \ C17_Managed) \cap C17_AllCategories(d) = {}

\* C17 (amended): every internal name of the external batch is in exactly
\* one of NEW (not a local primitive/semantic/component name), MODIFIED or
\* UNCHANGED (local of those tiers; value text differs or is identical);
\* REMOVED is exactly the local names of those tiers absent from the batch;
\* no name is in two categories or twice in one; a local base-tier or
\* unknown-tier name never appears in MODIFIED, UNCHANGED or REMOVED, and it
\* appears in NEW exactly when the external batch carries that internal name.
C17_Partition ==
    fn.pc \in {"second", "done"} =>
       \A d \in {fn.first, fn.apply} :
          /\ C17_Classified(d)
          /\ \A k \in C17_Local \ C17_Managed :
                /\ k \notin C17_Names(d.modified) \cup C17_Names(d.unchanged)
                               \cup C17_Names(d.removed)
                /\ k \in C17_Names(d.added) <=> k \in C17_External

\* the external token "primitive" meets the local name --primitive, next to
\* a modified semantic token
C17_Witness ==
    /\ fn.pc = "second"
    /\ <<"-", "-", "primitive">> \in C17_Local \cap C17_Names(fn.first.added)
    /\ C17_Names(fn.first.modified) = {CssName("semantic", "a")}
    /\ fn.apply = fn.first

-----------------------------------------------------------------------------
(* C18 *)

-----------------------------------------------------------------------------
(* C19 *)

\* the operator answered a prompt with abort
C19_Aborted == \E i \in 1..Len(trace) : trace[i] = Ev("answer", "quit", <<>>)

C19_NoneAccepted ==
    IF yes THEN YesApproved(diff).added = <<>> /\ YesApproved(diff).updated = <<>>
    ELSE \A K \in 1..3 : \A j \in 1..Len(ReviewLists[K]) : ~Accepted(K, j)

C19_NothingWritten == disk = disk0 /\ ~Happened("write")

\* C19: an apply run ends with exit code 2 exactly when the operator chose
\* abort and no entry was approved, and then nothing is written; a reviewed
\* run in which every entry was rejected without abort ends with exit code 0
\* and writes nothing.
C19_ExitTwoIffAbortedEmpty ==
    (entry = "apply" /\ pc = "done") =>
       /\ exitCode = 2 <=> (C19_Aborted /\ C19_NoneAccepted)
       /\ exitCode = 2 => C19_NothingWritten
       /\ (Happened("prompt") /\ ~C19_Aborted /\ ~Happened("sigint") /\ C19_NoneAccepted)
             => (exitCode = 0 /\ C19_NothingWritten)

\* an entry rejected, then abort at the next prompt
C19_Witness ==
    /\ entry = "apply" /\ pc = "done" /\ exitCode = 2
    /\ \E i \in 1..Len(trace) : trace[i] = Ev("answer", "no", <<>>)
    /\ C19_Aborted
    /\ disk = disk0

-----------------------------------------------------------------------------
(* C20 *)

\* the files already written by this run
C20_Written == {trace[i].kind : i \in {j \in 1..Len(trace) : trace[j].ev = "write"}}

C20_File(d, f) == IF f = "css" THEN d.css ELSE IF f = "scss" THEN d.scss ELSE d.registry

\* C20: in an apply run every write of an output file comes after every
\* prompt, decision and interrupt of the run; until the first write the three
\* files are as the run found them; and from before the first write on, the
\* contents of all three files are held in memory, generated from the
\* registry merged with the approved entries, each written file holding
\* exactly its generated content.
C20_WritesAfterReview ==
    entry = "apply" =>
       /\ \A i, j \in 1..Len(trace) :
             (trace[i].ev = "write" /\ trace[j].ev \in {"prompt", "answer", "sigint"})
                => j < i
       /\ C20_Written = {} => disk = disk0
       /\ (pc = "write-css" \/ C20_Written # {}) =>
             /\ out.state = "generated"
             /\ out.files = writeOutputFiles(
                               mergeRegistryChanges(currentRegistry, ApprovedChanges))
             /\ \A f \in {"css", "scss", "registry"} :
                   C20_File(disk, f) = IF f \in C20_Written THEN C20_File(out.files, f)
                                       ELSE C20_File(disk0, f)
       /\ C20_Written # {} => pc \in {"write-scss", "write-registry", "done"}

\* after a review with a decision, the stylesheet is written and the other
\* two files are not yet
C20_Witness ==
    /\ entry = "apply" /\ ~yes /\ pc = "write-scss"
    /\ Happened("answer")
    /\ C20_Written = {"css"}
    /\ disk.css # disk0.css
    /\ disk.registry = disk0.registry
    /\ out.files.registry # disk0.registry

-----------------------------------------------------------------------------
(* C21 *)

C21_Order == <<"css", "scss", "registry">>

\* the files written so far, in the order of their writes
C21_Writes ==
    LET w == SelectSeq(trace, LAMBDA e : e.ev = "write") IN [i \in 1..Len(w) |-> w[i].kind]

-----------------------------------------------------------------------------
(* C22 *)

\* the registry that mergeRegistryChanges returned
C22_Merged == out.files.registry

C22_Approved == UpsertedNames \cup DeletedNames

C22_Names ==
    (DOMAIN Persisted.tokens) \cup SeqToSet(Persisted.removed)
       \cup (DOMAIN C22_Merged.tokens) \cup SeqToSet(C22_Merged.removed)

\* C22: for every name that no approved NEW, MODIFIED or REMOVED entry
\* carries, presence and value in the override map and membership of the
\* removed set are the same in the merged registry as in the registry loaded
\* at the start of the run; the loaded registry is the same object content
\* after mergeRegistryChanges as before.
C22_MergeFrame ==
    (entry = "apply" /\ out.state = "generated") =>
       /\ \A n \in C22_Names \ C22_Approved :
             /\ n \in DOMAIN C22_Merged.tokens <=> n \in DOMAIN Persisted.tokens
             /\ n \in DOMAIN Persisted.tokens =>
                   C22_Merged.tokens[n] = Persisted.tokens[n]
             /\ n \in SeqToSet(C22_Merged.removed) <=> n \in SeqToSet(Persisted.removed)
       /\ currentRegistry = loadUserThemeRegistry(disk0.registry)

\* an approved addition leaves an override and a removed name it does not
\* carry as they were, and takes its own name out of the removed set
C22_Witness ==
    /\ entry = "apply" /\ pc = "write-css"
    /\ currentRegistry = RegistryRemoved
    /\ CssName("primitive", "a") \in C22_Approved
    /\ C22_Merged.removed = <<CssName("semantic", "q")>>
    /\ C22_Merged.tokens[CssName("semantic", "z")] = <<"#7">>

-----------------------------------------------------------------------------
(* C23 *)

\* C23: a run that finds none of the candidate stylesheets is a soft skip: it
\* ends with exit code 0 and has validated, diffed, prompted and written
\* nothing.
C23_AbsentStylesheetSoftSkip ==
    (pc = "done" /\ cssFile = NoPath) =>
       /\ exitCode = 0
       /\ trace = <<>>
       /\ disk = disk0
       /\ out = NoOutput

-----------------------------------------------------------------------------
(* C24 *)

\* a batch that cannot be parsed, holds no list "tokens", or holds an element
\* whose name is not a non-empty string or whose value is not a string
C24_Malformed(json) ==
    \/ json.kind \in {"unparsable", "nolist"}
    \/ /\ json.kind = "list"
       /\ \E i \in 1..Len(json.tokens) :
             \/ json.tokens[i].name = NotAString
             \/ json.tokens[i].name = <<>>
             \/ json.tokens[i].value = NotAString

\* C24: once a malformed batch has been read, no token of it has been
\* returned, the run has ended with exit code 1, and nothing was validated,
\* diffed, prompted for or written.
C24_MalformedBatchFails ==
    C24_Malformed(figmaJSON) =>
       /\ parseFigmaExport(figmaJSON) = [ok |-> FALSE, tokens |-> <<>>]
       /\ figmaTokens = <<>>
       /\ pc = "done" /\ exitCode = 1
       /\ archErrors = <<>> /\ diff = EmptyDiff
       /\ trace = <<>>
       /\ disk = disk0 /\ out = NoOutput

\* a batch whose first element is well-formed and whose second has a value
\* that is not a string
C24_Witness ==
    /\ pc = "done"
    /\ figmaJSON.kind = "list" /\ Len(figmaJSON.tokens) = 2
    /\ EntryOk(figmaJSON.tokens[1])
    /\ figmaJSON.tokens[2].value = NotAString
    /\ figmaTokens = <<>>

-----------------------------------------------------------------------------
(* C25 *)

\* the lines of the validator's report below its header
C25_Body == SubSeq(val.report, 2, Len(val.report))

C25_Rank(line) ==
    IF line.kind = "cycle-status" THEN 1
    ELSE IF line.kind = "error" THEN 2
    ELSE IF line.kind = "warning" THEN 3
    ELSE 4

\* a line that tells the outcome of the cycle check: the status line, or the
\* line of a cycle error
C25_AboutCycles(line) ==
    \/ line.kind = "cycle-status"
    \/ line.kind = "error" /\ line.what.rule = "cycle"

\* C25: in the validator's report the outcome of the cycle check is the
\* first line, before any other finding, whether or not a cycle exists; then
\* come the error lines, then the warning lines, then the summary.
C25_CycleStatusFirst ==
    val.pc \in {"report", "done"} /\ val.compiled =>
       /\ Len(C25_Body) >= 2
       /\ C25_AboutCycles(C25_Body[1])
       /\ \A i, j \in 1..Len(C25_Body) :
             i < j => C25_Rank(C25_Body[i]) <= C25_Rank(C25_Body[j])
       /\ C25_Body[Len(C25_Body)].kind = "summary"

-----------------------------------------------------------------------------
(* parseCSSTokens, and both extractors run on one stylesheet whose root    *)
(* scope may define a name more than once                                   *)

\* the body of the for loop of parseCSSTokens, for line i of the stylesheet
TokensLine(st, line, lineNum) ==
    LET isRootOpen == ~st.inRoot /\ RootOpenMatch(line)
        inRoot1    == st.inRoot \/ isRootOpen
        rootDepth  == IF isRootOpen THEN st.braceDepth ELSE st.rootDepth
        braceDepth == st.braceDepth + CountOf(line, "{") - CountOf(line, "}")
        inRoot     == inRoot1 /\ ~(braceDepth <= rootDepth)
        m          == DefMatch(line)
    IN [braceDepth |-> braceDepth, inRoot |-> inRoot, rootDepth |-> rootDepth,
        tokens |-> IF inRoot /\ m # NoMatch
                   THEN MapSet(st.tokens, m.name, [value |-> m.value, line |-> lineNum])
                   ELSE st.tokens]

RECURSIVE TokensLines(_, _, _)
TokensLines(st, lines, i) ==
    IF i > Len(lines) THEN st ELSE TokensLines(TokensLine(st, lines[i], i), lines, i + 1)

parseCSSTokens(css) ==
    TokensLines([braceDepth |-> 0, inRoot |-> FALSE, rootDepth |-> 0 - 1,
                 tokens |-> <<>>], css, 1).tokens

\* declarations of two names, each with two values
RootLines ==
    << DefLine(CssName("semantic", "a"), <<"#1">>),
       DefLine(CssName("semantic", "a"), VarOf(CssName("primitive", "a"))),
       DefLine(CssName("primitive", "a"), <<"#1">>),
       DefLine(CssName("primitive", "a"), <<"#2">>) >>

\* :root { declarations }
RootSheet(decls) == << <<":root", " ", "{">> >> \o decls \o << <<"}">> >>

SheetStart(css) == [pc |-> "input", css |-> css, tokenDefs |-> <<>>, tokens |-> <<>>]

\* the validator's extractor
SheetParseCSS ==
    /\ fn.pc = "input"
    /\ fn' = [fn EXCEPT !.pc = "rules", !.tokenDefs = parseCSS(fn.css).tokenDefs]
    /\ UNCHANGED <<runVars, val, norm>>

\* the diff engine's extractor
SheetParseCSSTokens ==
    /\ fn.pc = "rules"
    /\ fn' = [fn EXCEPT !.pc = "done", !.tokens = parseCSSTokens(fn.css)]
    /\ UNCHANGED <<runVars, val, norm>>

InitSheet ==
    /\ RunIdle /\ val = Idle /\ norm = Idle
    /\ \E n \in 0..MaxItems :
          \E d \in [1..n -> 1..Len(RootLines)] :
             fn = SheetStart(RootSheet([i \in 1..n |-> RootLines[d[i]]]))

NextSheet == SheetParseCSS \/ SheetParseCSSTokens

SpecSheet == InitSheet /\ [][NextSheet]_vars

-----------------------------------------------------------------------------
(* C26 *)

\* the lines of the stylesheet that define name
C26_Lines(name) == {i \in 1..Len(fn.css) : DefMatch(fn.css[i]).name = name}

C26_Defined == {DefMatch(fn.css[i]).name : i \in 1..Len(fn.css)} \ {Null}

C26_First(name) == CHOOSE i \in C26_Lines(name) : \A j \in C26_Lines(name) : i <= j

\* the validator's token set holds the first definition of every name
C26_RuleEngineKeepsFirst ==
    \A name \in C26_Defined :
       LET i == C26_First(name)
           d == MapGet(fn.tokenDefs, name)
       IN /\ d.value = DefMatch(fn.css[i]).value
          /\ d.refs = extractVarRefs(DefMatch(fn.css[i]).value)
          /\ d.line = i

\* the diff engine's token set holds the first definition of every name
C26_DiffEngineKeepsFirst ==
    \A name \in C26_Defined :
       LET i == C26_First(name)
           d == MapGet(fn.tokens, name)
       IN d.value = DefMatch(fn.css[i]).value /\ d.line = i

\* C26: of a name defined more than once inside root scope, both the token
\* set of parseCSS and the token set of parseCSSTokens keep the first
\* definition and ignore the later ones.
C26_FirstDefinitionWins ==
    fn.pc = "done" => C26_RuleEngineKeepsFirst /\ C26_DiffEngineKeepsFirst

-----------------------------------------------------------------------------
(* C27 *)

\* a line parseCSS reads: neither blank nor a comment
C27_Read(i) == val.css[i] # <<>> /\ Head(val.css[i]) \notin {"/*", "//"}

\* the brace depth after line i
RECURSIVE C27_Depth(_)
C27_Depth(i) ==
    IF i = 0 THEN 0
    ELSE C27_Depth(i - 1)
         + (IF C27_Read(i)
            THEN CountOf(val.css[i], "{") - CountOf(val.css[i], "}") ELSE 0)

\* line i lies in root scope: a :root block opened at or before it is still open
C27_InRoot(i) ==
    \E r \in 1..i :
       /\ C27_Read(r) /\ RootOpenMatch(val.css[r])
       /\ \A j \in r..i : C27_Depth(j) >= C27_Depth(r)

\* line i lies inside a rule that is not the root scope
C27_InRule(i) == C27_Read(i) /\ ~C27_InRoot(i) /\ C27_Depth(i) > 0

C27_Refs(i) == extractVarRefs(val.css[i])

C27_Count(seq, P(_)) == Cardinality({q \in 1..Len(seq) : P(seq[q])})

C27_RefNames == UNION {SeqToSet(C27_Refs(i)) : i \in 1..Len(val.css)}

\* C27: every occurrence of a primitive-tier reference on a line inside a
\* non-root rule gives one direct-primitive error, and the referenced names of
\* such lines are the rule-usage set; references on lines of the root scope
\* give no direct-primitive error and do not enter the rule-usage set.
C27_DirectPrimitiveExact ==
    val.compiled =>
       /\ \A q \in 1..Len(val.errors) :
             val.errors[q].rule = "direct-primitive" =>
                getTier(val.errors[q].what.token) = "primitive"
       /\ \A i \in 1..Len(val.css) :
             \A n \in {m \in C27_RefNames : getTier(m) = "primitive"} :
                C27_Count(val.errors,
                          LAMBDA e : e.rule = "direct-primitive"
                                     /\ e.what = [token |-> n, line |-> i])
                   = IF C27_InRule(i)
                     THEN C27_Count(C27_Refs(i), LAMBDA x : x = n)
                     ELSE 0
       /\ SeqToSet(val.ruleUsages) =
             UNION {SeqToSet(C27_Refs(i)) : i \in {k \in 1..Len(val.css) : C27_InRule(k)}}

\* a primitive referenced twice on one line of a rule and once on the next,
\* and another primitive referenced only in the root scope
C27_Witness ==
    /\ val.compiled
    /\ C27_InRoot(2) /\ C27_Refs(2) = <<CssName("primitive", "b")>>
    /\ C27_InRule(5) /\ C27_InRule(6)
    /\ val.primInRules = << [token |-> CssName("primitive", "a"), line |-> 5],
                            [token |-> CssName("primitive", "a"), line |-> 5],
                            [token |-> CssName("primitive", "a"), line |-> 6] >>
    /\ C27_Count(val.errors, LAMBDA e : e.rule = "direct-primitive") = 3
    /\ val.ruleUsages = <<CssName("primitive", "a")>>

-----------------------------------------------------------------------------
(* C28 *)

C28_Defined == {val.tokenDefs[i].k : i \in 1..Len(val.tokenDefs)}

\* the names some definition refers to
C28_Referenced ==
    UNION {SeqToSet(val.tokenDefs[i].v.refs) : i \in 1..Len(val.tokenDefs)}

C28_Findings == val.errors \o val.warnings

\* C28: the orphans are exactly the defined names that no definition refers
\* to and no non-root rule uses, each listed once; each gives one warning and
\* no error, and a run whose only findings are orphans exits with code 0.
C28_OrphansExactWarnings ==
    val.compiled =>
       /\ SeqToSet(val.orphans) =
             {n \in C28_Defined :
                 n \notin C28_Referenced /\ n \notin SeqToSet(val.ruleUsages)}
       /\ Cardinality(SeqToSet(val.orphans)) = Len(val.orphans)
       /\ \A n \in SeqToSet(val.orphans) :
             /\ Cardinality({q \in 1..Len(val.warnings) :
                                val.warnings[q] = Finding("orphan", n)}) = 1
             /\ \A q \in 1..Len(val.errors) : val.errors[q].rule # "orphan"
       /\ (/\ val.pc = "done"
           /\ \A q \in 1..Len(C28_Findings) : C28_Findings[q].rule = "orphan")
             => val.exitCode = 0

\* a stylesheet that defines a primitive nothing refers to, and has no other
\* finding, passes
C28_Witness ==
    /\ val.pc = "done" /\ val.compiled
    /\ val.orphans = <<CssName("primitive", "a")>>
    /\ C28_Findings = <<Finding("orphan", CssName("primitive", "a"))>>
    /\ val.exitCode = 0

-----------------------------------------------------------------------------
(* C29 *)

-----------------------------------------------------------------------------
(* parseFigmaExport applied twice to one well-formed batch *)

ConvNames ==
    { Dot("primitive", "a"), <<"semantic", ".", "color", ".", "a">>,
      <<"primitive">>, <<"x", ".", ".", "a">> }

\* raw values, references, and values that only resemble a reference
ConvValues ==
    { <<"#1">>, <<>>,
      RefTo(Dot("primitive", "a")), RefTo(<<"semantic", ".", "color", ".", "a">>),
      <<"{", "}">>, <<"{", "a", "\n", "b", "}">>,
      RefTo(Dot("x", "a")) \o <<" ">>,
      <<"{", "a", "}", " ", "{", "b", "}">> }

ConvStart(json) == [pc |-> "input", json |-> json, first |-> <<>>, second |-> <<>>]

ConvertFirst ==
    /\ fn.pc = "input"
    /\ fn' = [fn EXCEPT !.pc = "first", !.first = parseFigmaExport(fn.json)]
    /\ UNCHANGED <<runVars, val, norm>>

ConvertSecond ==
    /\ fn.pc = "first"
    /\ fn' = [fn EXCEPT !.pc = "done", !.second = parseFigmaExport(fn.json)]
    /\ UNCHANGED <<runVars, val, norm>>

InitConvert ==
    /\ RunIdle /\ val = Idle /\ norm = Idle
    /\ \E n \in 0..MaxTokens :
          \E nm \in [1..n -> ConvNames], vl \in [1..n -> ConvValues] :
             fn = ConvStart([kind |-> "list",
                             tokens |-> [i \in 1..n |-> Entry(nm[i], vl[i])]])

NextConvert == ConvertFirst \/ ConvertSecond

SpecConvert == InitConvert /\ [][NextConvert]_vars

-----------------------------------------------------------------------------
(* C30 *)

\* every "." replaced by "-"
RECURSIVE C30_Dashed(_)
C30_Dashed(s) ==
    IF s = <<>> THEN <<>>
    ELSE <<IF Head(s) = "." THEN "-" ELSE Head(s)>> \o C30_Dashed(Tail(s))

C30_Internal(dotName) == <<"-", "-">> \o C30_Dashed(dotName)

\* a value that is one name of one line between braces
C30_IsRef(v) ==
    /\ Len(v) >= 3 /\ v[1] = "{" /\ v[Len(v)] = "}"
    /\ \A i \in 2..(Len(v) - 1) : v[i] # "\n"

-----------------------------------------------------------------------------
(* C31 *)

\* the root flag of parseCSS once line i has been processed
C31_Flag(i) ==
    ParseLines([braceDepth |-> 0, inRoot |-> FALSE, rootDepth |-> 0 - 1,
                layerStack |-> <<>>, tokenDefs |-> <<>>, ruleUsages |-> <<>>,
                primInRules |-> <<>>], SubSeq(val.css, 1, i), 1).inRoot

C31_Balanced ==
    /\ \A i \in 1..Len(val.css) : C27_Depth(i) >= 0
    /\ C27_Depth(Len(val.css)) = 0

\* after line i a ':root {' block is open: it was opened on a line r <= i and
\* its matching closing brace has not been read
C31_Open(i) ==
    \E r \in 1..i :
       /\ C27_Read(r) /\ RootOpenMatch(val.css[r])
       /\ \A j \in r..i : C27_Depth(j) > C27_Depth(r - 1)

\* C31: on a brace-balanced stylesheet the root flag is true after a line
\* exactly when a ':root {' block is open there, and false once the line with
\* the block's closing brace has been processed, also when that is the line
\* that opened it; so every recorded definition stands on a line inside a
\* ':root {' block.
C31_RootFlagExact ==
    (val.pc \notin {"idle", "start"} /\ val.css # <<>> /\ C31_Balanced) =>
       /\ \A i \in 1..Len(val.css) : C31_Flag(i) <=> C31_Open(i)
       /\ \A q \in 1..Len(val.tokenDefs) : C31_Open(val.tokenDefs[q].v.line)

-----------------------------------------------------------------------------
(* The two cycle detectors run step by step on one graph: first findCycles *)
(* of the validator, then findCycles of the normalizer.  `work` lists what  *)
(* the running detector has done: the nodes it coloured gray, the frames it *)
(* pushed and popped, and the edges it examined, in order; `turns` counts   *)
(* the turns of its loops.                                                  *)

MaxSearchEdges == 3

SearchName(i) == CssName("semantic", NodeLetter(i))

\* the graph with nodes 1..n and edges srcs[q] -> dsts[q]; target 0 is a name
\* that is no node
SearchGraph(n, srcs, dsts) ==
    [i \in 1..n |->
        KV(SearchName(i),
           LET targets == RefsOf(i, srcs, dsts)
           IN [j \in 1..Len(targets) |-> SearchName(targets[j])])]

NoWork == [grayed |-> <<>>, pushed |-> <<>>, examined |-> <<>>, popped |-> <<>>]

SearchStart(graph) ==
    [pc |-> "validator", graph |-> graph, i |-> 1,
     st |-> [color     |-> [i \in 1..Len(graph) |-> KV(graph[i].k, WHITE)],
             callStack |-> <<>>, path |-> <<>>, cycles |-> <<>>],
     work |-> NoWork, turns |-> 0, cycles |-> <<>>, validatorWork |-> NoWork]

\* the frames of either detector
Frames(st) == IF "callStack" \in DOMAIN st THEN st.callStack ELSE st.stack

FrameIdx(frame) == IF "childIdx" \in DOMAIN frame THEN frame.childIdx ELSE frame.edgeIdx

ColorOf(color, node) == IF MapHas(color, node) THEN MapGet(color, node) ELSE WHITE

\* what one turn of a detector from st to st1 adds to the work done
Worked(work, graph, st, st1) ==
    LET frames  == Frames(st)
        frames1 == Frames(st1)
        top     == IF frames = <<>> THEN [node |-> Null] ELSE frames[Len(frames)]
        grayed  == {k \in SeqToSet(MapKeys(st1.color)) :
                       MapGet(st1.color, k) = GRAY /\ ColorOf(st.color, k) # GRAY}
    IN [grayed   |-> IF grayed = {} THEN work.grayed
                     ELSE Append(work.grayed, CHOOSE k \in grayed : TRUE),
        pushed   |-> IF Len(frames1) > Len(frames)
                     THEN Append(work.pushed, frames1[Len(frames1)].node)
                     ELSE work.pushed,
        popped   |-> IF Len(frames1) < Len(frames)
                     THEN Append(work.popped, top.node)
                     ELSE work.popped,
        examined |-> IF frames # <<>> /\ FrameIdx(top) < Len(GraphGet(graph, top.node))
                     THEN Append(work.examined, <<top.node, FrameIdx(top) + 1>>)
                     ELSE work.examined]

\* validator: for (const name of graph.keys()) if (color.get(name) === WHITE) dfs(name)
\* up to the while loop of dfs; after the last key the normalizer's detector
\* is set up on the same graph
SearchOuter ==
    /\ fn.pc = "validator" /\ fn.st.callStack = <<>>
    /\ IF fn.i > Len(fn.graph)
       THEN fn' = [fn EXCEPT
                      !.pc = "normalizer", !.i = 1, !.cycles = fn.st.cycles,
                      !.validatorWork = fn.work, !.work = NoWork, !.turns = 0,
                      !.st = [color  |-> [i \in 1..Len(fn.graph) |->
                                            [k |-> fn.graph[i].k, v |-> WHITE]],
                              stack  |-> <<>>,
                              cycles |-> <<>>]]
       ELSE IF MapGet(fn.st.color, fn.graph[fn.i].k) = WHITE
       THEN \E st1 \in {DfsEnter(fn.st, fn.graph[fn.i].k)} :
               fn' = [fn EXCEPT !.i = @ + 1, !.st = st1, !.turns = @ + 1,
                                !.work = Worked(fn.work, fn.graph, fn.st, st1)]
       ELSE fn' = [fn EXCEPT !.i = @ + 1, !.turns = @ + 1]
    /\ UNCHANGED <<runVars, val, norm>>

\* validator: one edge, or the pop, of the while loop of dfs
SearchStep ==
    /\ fn.pc = "validator" /\ fn.st.callStack # <<>>
    /\ \E st1 \in {DfsStep(fn.graph, fn.st)} :
          fn' = [fn EXCEPT !.st = st1, !.turns = @ + 1,
                           !.work = Worked(fn.work, fn.graph, fn.st, st1)]
    /\ UNCHANGED <<runVars, val, norm>>

\* normalizer: for (const [node, clr] of color) if (clr === WHITE) dfs(node)
FigmaSearchOuter ==
    /\ fn.pc = "normalizer" /\ fn.st.stack = <<>>
    /\ IF fn.i > Len(fn.st.color)
       THEN fn' = [fn EXCEPT !.pc = "done"]
       ELSE IF fn.st.color[fn.i].v = WHITE
       THEN \E st1 \in {FigmaDfsEnter(fn.st, fn.st.color[fn.i].k)} :
               fn' = [fn EXCEPT !.i = @ + 1, !.st = st1, !.turns = @ + 1,
                                !.work = Worked(fn.work, fn.graph, fn.st, st1)]
       ELSE fn' = [fn EXCEPT !.i = @ + 1, !.turns = @ + 1]
    /\ UNCHANGED <<runVars, val, norm>>

\* normalizer: one turn of the while loop of dfs
FigmaSearchStep ==
    /\ fn.pc = "normalizer" /\ fn.st.stack # <<>>
    /\ \E st1 \in {FigmaDfsStep(fn.graph, fn.st)} :
          fn' = [fn EXCEPT !.st = st1, !.turns = @ + 1,
                           !.work = Worked(fn.work, fn.graph, fn.st, st1)]
    /\ UNCHANGED <<runVars, val, norm>>

InitSearch ==
    /\ RunIdle /\ val = Idle /\ norm = Idle
    /\ \E n \in 1..MaxNodes, e \in 0..MaxSearchEdges :
          \E srcs \in [1..e -> 1..n] :
             /\ \A q \in 1..(e - 1) : srcs[q] <= srcs[q + 1]
             /\ \E dsts \in [1..e -> 0..n] :
                   fn = SearchStart(SearchGraph(n, srcs, dsts))

NextSearch == SearchOuter \/ SearchStep \/ FigmaSearchOuter \/ FigmaSearchStep

SpecSearch == InitSearch /\ [][NextSearch]_vars

-----------------------------------------------------------------------------
(* C32 *)

C32_NoRepetition(seq) == \A p, q \in 1..Len(seq) : p # q => seq[p] # seq[q]

\* the references of the graph, each as <<node, position>>
C32_Edges ==
    UNION {{<<fn.graph[i].k, j>> : j \in 1..Len(fn.graph[i].v)} : i \in 1..Len(fn.graph)}

\* the nodes the running detector knows
C32_Nodes == SeqToSet(MapKeys(fn.st.color))

C32_Once(work) ==
    /\ C32_NoRepetition(work.grayed)
    /\ C32_NoRepetition(work.pushed)
    /\ C32_NoRepetition(work.popped)
    /\ C32_NoRepetition(work.examined)
    /\ work.pushed = work.grayed
    /\ SeqToSet(work.examined) \subseteq C32_Edges

\* C32: in both detectors every node is coloured gray at most once and pushed
\* at most once and every reference is examined at most once; every turn of
\* a loop examines a reference, pops a frame or moves to the next start node,
\* so a detector takes at most 2 * nodes + references turns, and while it has
\* not finished it can take another turn.
C32_LinearWork ==
    fn.pc \in {"validator", "normalizer", "done"} =>
       /\ C32_Once(fn.work) /\ C32_Once(fn.validatorWork)
       /\ SeqToSet(fn.work.grayed) \subseteq C32_Nodes
       /\ fn.turns = Len(fn.work.examined) + Len(fn.work.popped) + (fn.i - 1)
       /\ fn.turns <= 2 * Cardinality(C32_Nodes) + Cardinality(C32_Edges)
       /\ fn.pc # "done" => ENABLED NextSearch

\* both detectors have finished on a graph with a cycle of two nodes and a
\* reference to a name that is no node, which only the normalizer's detector
\* colours
C32_Witness ==
    /\ fn.pc = "done"
    /\ fn.graph = << KV(SearchName(1), <<SearchName(2)>>),
                     KV(SearchName(2), <<SearchName(1), SearchName(0)>>) >>
    /\ Len(fn.validatorWork.grayed) = 2 /\ Len(fn.validatorWork.examined) = 3
    /\ Len(fn.work.grayed) = 3 /\ Len(fn.work.examined) = 3
    /\ Len(fn.cycles) = 1

-----------------------------------------------------------------------------
(* C35 *)

\* C35: on every graph the detector of the validator, the detector of the
\* normalizer and the copy of the latter in the apply script return the same
\* cycles in the same order.
C35_SameCycles ==
    fn.pc = "done" =>
       /\ fn.st.cycles = fn.cycles
       /\ applyFindCycles(fn.graph) = fn.cycles
       /\ figmaFindCycles(fn.graph) = fn.st.cycles
       /\ findCycles(fn.graph) = fn.cycles

\* a graph with a self-reference and a reference to a name that is no node,
\* which only the normalizer's detector adds to its colour map: both
\* detectors list the one cycle
C35_Witness ==
    /\ fn.pc = "done"
    /\ fn.graph = << KV(SearchName(1), <<SearchName(1), SearchName(2)>>),
                     KV(SearchName(2), <<SearchName(0)>>),
                     KV(SearchName(3), <<>>) >>
    /\ fn.cycles = << <<SearchName(1), SearchName(1)>> >>
    /\ fn.st.cycles = fn.cycles
    /\ Len(fn.st.color) = 4

-----------------------------------------------------------------------------
(* C36 *)

C36_Colored(c) == {k \in SeqToSet(MapKeys(fn.st.color)) : MapGet(fn.st.color, k) = c}

C36_FrameNodes == [q \in 1..Len(Frames(fn.st)) |-> Frames(fn.st)[q].node]

\* the current search path: the shared path list of the validator, the path
\* of the top frame in the normalizer
C36_Path ==
    IF fn.pc = "validator" THEN fn.st.path
    ELSE IF fn.st.stack = <<>> THEN <<>>
    ELSE fn.st.stack[Len(fn.st.stack)].path

\* the start nodes the outer loop has passed
C36_Started ==
    IF fn.pc = "validator" THEN {fn.graph[q].k : q \in 1..(fn.i - 1)}
    ELSE {fn.st.color[q].k : q \in 1..(fn.i - 1)}

\* the nodes reached from S along references, nodes that are no key included
RECURSIVE C36_Reached(_)
C36_Reached(S) ==
    LET more == S \cup UNION {SeqToSet(GraphGet(fn.graph, x)) : x \in S}
    IN IF more = S THEN S ELSE C36_Reached(more)

\* C36: at every turn of either detector the gray nodes are the nodes of the
\* search path, the path lists the nodes of the frames in order, and no frame
\* holds a black node; between two searches the path is empty, no node is
\* gray, and every node reached from a start node already passed is black.
C36_GrayIsPath ==
    fn.pc \in {"validator", "normalizer"} =>
       /\ C36_Colored(GRAY) = SeqToSet(C36_Path)
       /\ C36_Path = C36_FrameNodes
       /\ C32_NoRepetition(C36_Path)
       /\ \A q \in 1..Len(Frames(fn.st)) :
             "path" \in DOMAIN Frames(fn.st)[q] =>
                Frames(fn.st)[q].path = SubSeq(C36_FrameNodes, 1, q)
       /\ SeqToSet(fn.work.popped) = C36_Colored(BLACK)
       /\ SeqToSet(fn.work.pushed) = C36_Colored(BLACK) \cup C36_Colored(GRAY)
       /\ Frames(fn.st) = <<>> =>
             /\ C36_Path = <<>> /\ C36_Colored(GRAY) = {}
             /\ \A x \in C36_Reached(C36_Started) :
                   MapHas(fn.st.color, x) => MapGet(fn.st.color, x) = BLACK
             /\ fn.pc = "normalizer" =>
                   C36_Reached(C36_Started) \subseteq C36_Colored(BLACK)

\* the validator inside a search, two nodes deep, with a node already black
C36_Witness ==
    /\ fn.pc = "validator"
    /\ Len(fn.st.path) = 2
    /\ C36_Colored(GRAY) = SeqToSet(fn.st.path)
    /\ C36_Colored(BLACK) # {}

-----------------------------------------------------------------------------
(* C33 *)

\* the review of category K has returned
C33_Done(K) ==
    /\ rc.kind # "none"
    /\ \/ KindIdx(rc.kind) > K
       \/ KindIdx(rc.kind) = K /\ rc.at = "return"

C33_Approved(K, j) ==
    \E a \in 1..Len(ApprovedOf(K)) : ApprovedOf(K)[a] = ReviewLists[K][j]

\* the prompt for entry h of category K was answered with decision a
C33_Answered(K, h, a) == AnsweredWith(Cats[K], ReviewLists[K][h].name, a)

\* accept-all or reject-all was answered in category K before entry j
C33_Swept(K, j) ==
    \E h \in 1..(j - 1) : C33_Answered(K, h, "all") \/ C33_Answered(K, h, "skip")

\* abort was answered in category K or before it
C33_Aborted(K) ==
    \E K0 \in 1..K : \E h \in 1..Len(ReviewLists[K0]) : C33_Answered(K0, h, "quit")

\* C33: accept-all and reject-all act on the current category only. Once the
\* review of a category has returned: after 'all' (resp. 'skip') at entry h,
\* entry h and every later entry of the category is approved (resp. not
\* approved) and none of the later ones was prompted; an entry before h is
\* approved exactly if its own prompt was answered accept-this; and in every
\* category, whatever was answered in the categories before it, an entry is
\* prompted unless accept-all or reject-all was answered earlier in that same
\* category (or the review was aborted).
C33_AllActsOnCategory ==
    (entry = "apply" /\ ~yes) =>
        \A K \in 1..3 :
            C33_Done(K) =>
                \A j \in 1..Len(ReviewLists[K]) :
                    /\ \A h \in 1..j :
                          /\ C33_Answered(K, h, "all") =>
                                /\ C33_Approved(K, j)
                                /\ (h < j => ~Prompted(Cats[K], ReviewLists[K][j].name))
                          /\ C33_Answered(K, h, "skip") =>
                                /\ ~C33_Approved(K, j)
                                /\ (h < j => ~Prompted(Cats[K], ReviewLists[K][j].name))
                    /\ (Prompted(Cats[K], ReviewLists[K][j].name)
                        /\ ~C33_Answered(K, j, "all") /\ ~C33_Answered(K, j, "skip"))
                          => (C33_Approved(K, j) <=> C33_Answered(K, j, "yes"))
                    /\ Prompted(Cats[K], ReviewLists[K][j].name) => ~C33_Swept(K, j)
                    /\ (~C33_Swept(K, j) /\ ~C33_Aborted(K))
                          => Prompted(Cats[K], ReviewLists[K][j].name)

\* accept-all at the first of two NEW entries approves both without a second
\* prompt, and the first MODIFIED entry is prompted again and rejected
C33_Witness ==
    /\ entry = "apply" /\ ~yes /\ pc = "done"
    /\ Len(diff.added) >= 2 /\ Len(diff.modified) >= 1
    /\ C33_Answered(1, 1, "all")
    /\ ~Prompted("NEW", diff.added[2].name)
    /\ approvedAdded = diff.added
    /\ C33_Answered(2, 1, "no")
    /\ approvedUpdated = <<>>
    /\ C33_Done(3)

-----------------------------------------------------------------------------
(* prompt applied to one typed line *)

MaxAnswer == 3

\* the atoms the operator can type
AnswerAtoms == {" ", "\t", "a", "A", "s", "S", "q", "Q", "n", "N", "o", "O", "y", "x"}

PromptStart(answer) == [pc |-> "input", answer |-> answer, decision |-> "none"]

\* rl.question's callback resolves the promise
PromptResolve ==
    /\ fn.pc = "input"
    /\ fn' = [fn EXCEPT !.pc = "done", !.decision = prompt(fn.answer)]
    /\ UNCHANGED <<runVars, val, norm>>

InitPrompt ==
    /\ RunIdle /\ val = Idle /\ norm = Idle
    /\ \E n \in 0..MaxAnswer : \E answer \in [1..n -> AnswerAtoms] :
          fn = PromptStart(answer)

NextPrompt == PromptResolve

SpecPrompt == InitPrompt /\ [][NextPrompt]_vars

-----------------------------------------------------------------------------
(* C34 *)

\* the answer is the given words written in either case, one of them, with
\* nothing but blanks and tabs before and after
C34_Reads(answer, words) ==
    \E l \in 0..Len(answer), r \in 0..Len(answer) :
       /\ l + r <= Len(answer)
       /\ \A i \in 1..l : answer[i] \in {" ", "\t"}
       /\ \A i \in (Len(answer) - r + 1)..Len(answer) : answer[i] \in {" ", "\t"}
       /\ \E w \in words :
             /\ Len(w) = Len(answer) - l - r
             /\ \A i \in 1..Len(w) : answer[l + i] \in w[i]

\* C34: prompt decides every answer, and decides it by the answer trimmed and
\* read without regard to case: "a" is accept-all, "s" reject-all, "q" abort,
\* "n" and "no" reject-this, and every other answer, the empty one and
\* unrecognized text included, is accept-this.
C34_FiveDecisions ==
    fn.pc = "done" =>
        /\ fn.decision \in {"all", "skip", "quit", "no", "yes"}
        /\ fn.decision = "all"  <=> C34_Reads(fn.answer, {<<{"a", "A"}>>})
        /\ fn.decision = "skip" <=> C34_Reads(fn.answer, {<<{"s", "S"}>>})
        /\ fn.decision = "quit" <=> C34_Reads(fn.answer, {<<{"q", "Q"}>>})
        /\ fn.decision = "no"   <=> C34_Reads(fn.answer, {<<{"n", "N"}>>,
                                                          <<{"n", "N"}, {"o", "O"}>>})

\* "No" typed after a tab is reject-this
C34_Witness ==
    /\ fn.pc = "done"
    /\ fn.answer = <<"\t", "N", "o">>
    /\ fn.decision = "no"

-----------------------------------------------------------------------------
(* Apply runs one after another on one registry, starting without a        *)
(* registry file: each run diffs the batch it is given against the         *)
(* stylesheet, approves some of the NEW, MODIFIED and removable REMOVED     *)
(* entries, merges them and writes the registry the next run loads.         *)

MaxRuns == 3

\* the compiled stylesheet, the same for every run
RunsCss ==
    << KV(CssName("primitive", "a"), <<"#1">>), KV(CssName("semantic", "a"), <<"#1">>) >>

RunsNames == << CssName("primitive", "a"), CssName("semantic", "a"),
                CssName("semantic", "b") >>

RunsValues == {<<"#1">>, <<"#2">>}

\* the batch naming the tokens of S with the values f gives them
RunsBatch(S, f) ==
    LET idx == SortedSeq(S)
    IN [i \in 1..Len(idx) |-> [cssName |-> RunsNames[idx[i]], cssValue |-> f[idx[i]]]]

NoChanges == [added |-> <<>>, updated |-> <<>>, removedFromTheme |-> <<>>]

RunsStart ==
    [pc |-> "review", registry |-> loadUserThemeRegistry(NoFile), runs |-> 0,
     changes |-> NoChanges, merged |-> EmptyRegistry, again |-> EmptyRegistry]

\* main from the diff to mergeRegistryChanges: the operator approves any of
\* the entries shown; with nothing approved the run writes nothing
RunsMerge ==
    /\ fn.pc = "review"
    /\ fn.runs < MaxRuns
    /\ \E S \in SUBSET (1..Len(RunsNames)) : \E f \in [S -> RunsValues] :
         LET d         == applyDiffTokens(RunsCss, RunsBatch(S, f))
             removable == RemovableFromTheme(d.removed, fn.registry)
         IN \E A \in SUBSET (1..Len(d.added)), U \in SUBSET (1..Len(d.modified)),
               R \in SUBSET (1..Len(removable)) :
               LET changes == [added            |-> Pick(d.added, A),
                               updated          |-> Pick(d.modified, U),
                               removedFromTheme |-> Pick(removable, R)]
               IN /\ A \cup U \cup R # {}
                  /\ fn' = [fn EXCEPT !.pc = "merged",
                                      !.changes = changes,
                                      !.merged = mergeRegistryChanges(fn.registry, changes)]
    /\ UNCHANGED <<runVars, val, norm>>

\* the same approved entries merged into the result of the merge
RunsMergeAgain ==
    /\ fn.pc = "merged"
    /\ fn' = [fn EXCEPT !.pc = "again",
                        !.again = mergeRegistryChanges(fn.merged, fn.changes)]
    /\ UNCHANGED <<runVars, val, norm>>

\* writeOutputFiles, and the next run's loadUserThemeRegistry
RunsWrite ==
    /\ fn.pc \in {"merged", "again"}
    /\ fn' = [fn EXCEPT !.pc = "review",
                        !.registry = loadUserThemeRegistry(
                                         writeOutputFiles(fn.merged).registry),
                        !.runs = @ + 1]
    /\ UNCHANGED <<runVars, val, norm>>

InitRuns == RunIdle /\ val = Idle /\ norm = Idle /\ fn = RunsStart

NextRuns == RunsMerge \/ RunsMergeAgain \/ RunsWrite

SpecRuns == InitRuns /\ [][NextRuns]_vars

-----------------------------------------------------------------------------
(* C37 *)

\* C37: after any sequence of apply runs that started without a registry, no
\* name is a key of the override map and a member of the removed set at the
\* same time.
C37_OverrideOrRemoved ==
    /\ DOMAIN fn.registry.tokens \cap SeqToSet(fn.registry.removed) = {}
    /\ DOMAIN fn.merged.tokens \cap SeqToSet(fn.merged.removed) = {}

-----------------------------------------------------------------------------
(* C40 *)

\* C40: merging the approved entries of a run a second time, into the result
\* of the first merge, leaves the override map and the removed set as the
\* first merge left them.
C40_MergeIdempotent ==
    fn.pc = "again" =>
        /\ fn.again.tokens = fn.merged.tokens
        /\ fn.again.removed = fn.merged.removed

\* an addition, an update and a removal merged twice into a registry that held
\* an override and a removed name; the second changelog differs
C40_Witness ==
    /\ fn.pc = "again"
    /\ fn.changes.added # <<>>
    /\ fn.changes.updated # <<>>
    /\ fn.changes.removedFromTheme # <<>>
    /\ fn.registry.removed # <<>>
    /\ fn.again.changelog # fn.merged.changelog

-----------------------------------------------------------------------------
(* The tier rules and the cycle detectors of both programs on one set of    *)
(* definitions over all tiers: as a stylesheet for the validator, as a      *)
(* batch for the normalizer.                                                *)

MaxChain == 2

\* one name of every tier, and one without a tier
ChainTiers == <<"primitive", "semantic", "component", "base", "x">>

\* value 0 is raw, value t refers to the name of tier t
ChainSheet(n, tier, ref) ==
    << <<":root", " ", "{">> >>
    \o [i \in 1..n |->
          DefLine(CssName(ChainTiers[tier[i]], "a"),
                  IF ref[i] = 0 THEN <<"#1">>
                  ELSE VarOf(CssName(ChainTiers[ref[i]], "a")))]
    \o << <<"}">> >>

ChainExport(n, tier, ref) ==
    [kind |-> "list",
     tokens |-> [i \in 1..n |->
                   Entry(Dot(ChainTiers[tier[i]], "a"),
                         IF ref[i] = 0 THEN <<"#1">>
                         ELSE RefTo(Dot(ChainTiers[ref[i]], "a")))]]

ChainStart(css, json) ==
    [pc |-> "input", css |-> css, json |-> json,
     tokenDefs |-> <<>>, tierViolations |-> <<>>, cycles |-> <<>>,
     tokens |-> <<>>, errors |-> <<>>, figmaCycles |-> <<>>, archErrors |-> <<>>]

\* validator: parseCSS, RULE 2 and RULE 3
ChainOfSheet ==
    /\ fn.pc = "input"
    /\ LET tokenDefs == parseCSS(fn.css).tokenDefs
       IN fn' = [fn EXCEPT !.pc = "sheet", !.tokenDefs = tokenDefs,
                           !.tierViolations = findTierViolations(tokenDefs),
                           !.cycles = findCycles(buildGraph(tokenDefs))]
    /\ UNCHANGED <<runVars, val, norm>>

\* normalizer: parseFigmaExport, validateFigmaTiers, findCycles, and the
\* error list of the apply script's gate
ChainOfExport ==
    /\ fn.pc = "sheet"
    /\ LET tokens == parseFigmaExport(fn.json).tokens
       IN fn' = [fn EXCEPT !.pc = "done", !.tokens = tokens,
                           !.errors = validateFigmaTiers(tokens),
                           !.figmaCycles = figmaFindCycles(buildFigmaGraph(tokens)),
                           !.archErrors = ArchErrors("apply", tokens)]
    /\ UNCHANGED <<runVars, val, norm>>

InitChain ==
    /\ RunIdle /\ val = Idle /\ norm = Idle
    /\ \E n \in 0..MaxChain :
          \E tier \in [1..n -> 1..Len(ChainTiers)], ref \in [1..n -> 0..Len(ChainTiers)] :
             fn = ChainStart(ChainSheet(n, tier, ref), ChainExport(n, tier, ref))

NextChain == ChainOfSheet \/ ChainOfExport

SpecChain == InitChain /\ [][NextChain]_vars

-----------------------------------------------------------------------------
(* C38 *)

C38_NoUnknownTier ==
    \A i \in 1..Len(fn.tokenDefs) : getTier(fn.tokenDefs[i].k) # "unknown"

C38_CycleError(e) == e.kind = "cycle"

\* C38: a stylesheet definition set without a token of unknown tier and
\* without a tier violation has no cycle for findCycles to return; a batch
\* without an error from validateFigmaTiers has none either, so whenever the
\* gate's list holds a cycle error it holds a tier error as well.
C38_TierTableImpliesAcyclic ==
    /\ fn.pc \in {"sheet", "done"} =>
          ((C38_NoUnknownTier /\ fn.tierViolations = <<>>) => fn.cycles = <<>>)
    /\ fn.pc = "done" =>
          /\ fn.errors = <<>> => fn.figmaCycles = <<>>
          /\ (\E i \in 1..Len(fn.archErrors) : C38_CycleError(fn.archErrors[i]))
                => \E i \in 1..Len(fn.archErrors) : ~C38_CycleError(fn.archErrors[i])

\* two definitions chained down the tiers pass both tier checks and hold no
\* cycle
C38_Witness ==
    /\ fn.pc = "done"
    /\ Len(fn.tokenDefs) = 2 /\ C38_NoUnknownTier
    /\ \E i \in 1..2 : fn.tokenDefs[i].v.refs # <<>>
    /\ fn.tierViolations = <<>> /\ fn.cycles = <<>>
    /\ Len(fn.tokens) = 2
    /\ \E i \in 1..Len(buildFigmaGraph(fn.tokens)) : buildFigmaGraph(fn.tokens)[i].v # <<>>
    /\ fn.errors = <<>> /\ fn.figmaCycles = <<>> /\ fn.archErrors = <<>>

-----------------------------------------------------------------------------
(* C39 *)

\* C39: parseCSS and parseCSSTokens extract the same root-scope definition
\* names from a stylesheet, each name with the same value.
C39_ExtractorsAgree ==
    fn.pc = "done" =>
        /\ SeqToSet(MapKeys(fn.tokenDefs)) = SeqToSet(MapKeys(fn.tokens))
        /\ \A name \in SeqToSet(MapKeys(fn.tokenDefs)) :
              MapGet(fn.tokenDefs, name).value = MapGet(fn.tokens, name).value

====
